---- MODULE Spec2Model ----
(***************************************************************************)
(* Model of the file-relevance pipeline of the AI agent: the repository    *)
(* scanner (repo/scan.ts), the relevance cascade findRelatedFiles          *)
(* (agent/reader.ts), and the entry points and prompt builders that hand   *)
(* the selected files to the model facade (agent/loop.ts, modes/*.ts,      *)
(* agent/bugAnalyzer.ts, llm/ollama.ts).                                   *)
(*                                                                         *)
(* Text is modelled as a sequence of one-character strings, so that        *)
(* toLowerCase, split(/\s+/) and includes are computed, not assumed.       *)
(* A path is a record [abs, dir, file]: abs says whether the string begins *)
(* at the filesystem root, dir is the sequence of directory segments and   *)
(* file is the text of the last segment.                                   *)
(***************************************************************************)
EXTENDS Integers, Sequences, FiniteSets, TLC

\* ------------------------------------------------------------------------
\* Bounds of the model
\* ------------------------------------------------------------------------
\* how many of the removable files may be absent from the disk
MaxMissing == 2
\* how many of the lockable files may exist but fail to be read
MaxUnreadable == 1
\* longest list of explicit file paths a caller supplies
MaxExplicit == 7
\* most stack frames in an error log
MaxFrames == 4
\* most directories of a disk that cannot be listed
MaxLockedDirs == 1

\* ------------------------------------------------------------------------
\* Text
\* ------------------------------------------------------------------------
Min(a, b) == IF a < b THEN a ELSE b

\* Array.prototype.slice(0, n) / String.prototype.substring(0, n)
Slice(s, n) == SubSeq(s, 1, Min(n, Len(s)))

\* String.prototype.toLowerCase on one character
LowerOf ==
    [A |-> "a", B |-> "b", C |-> "c", D |-> "d", E |-> "e", F |-> "f",
     G |-> "g", H |-> "h", I |-> "i", J |-> "j", K |-> "k", L |-> "l",
     M |-> "m", N |-> "n", O |-> "o", P |-> "p", Q |-> "q", R |-> "r",
     S |-> "s", T |-> "t", U |-> "u", V |-> "v", W |-> "w", X |-> "x",
     Y |-> "y", Z |-> "z"]

UpperCase == DOMAIN LowerOf

LowerChar(c) == IF c \in UpperCase THEN LowerOf[c] ELSE c

toLowerCase(s) == [i \in 1..Len(s) |-> LowerChar(s[i])]

\* the characters /\s/ matches
IsSpace(c) == c \in {" ", "\t", "\n"}

\* String.prototype.includes: needle occurs as a contiguous run of hay
includes(hay, needle) ==
    \E i \in 0..(Len(hay) - Len(needle)) :
        \A j \in 1..Len(needle) : hay[i + j] = needle[j]

\* String.prototype.split(/\s+/): the pieces between maximal runs of
\* whitespace; a leading or trailing run leaves an empty piece.
RECURSIVE splitFrom(_, _, _, _)
splitFrom(s, i, cur, inGap) ==
    IF i > Len(s) THEN <<cur>>
    ELSE IF IsSpace(s[i])
         THEN IF inGap THEN splitFrom(s, i + 1, cur, TRUE)
              ELSE <<cur>> \o splitFrom(s, i + 1, <<>>, TRUE)
         ELSE splitFrom(s, i + 1, Append(cur, s[i]), FALSE)

splitWhitespace(s) == splitFrom(s, 1, <<>>, FALSE)

\* [...new Set(xs)]: first occurrences, in order
RECURSIVE uniqueSeq(_)
uniqueSeq(s) ==
    IF s = <<>> THEN <<>>
    ELSE LET init == uniqueSeq(SubSeq(s, 1, Len(s) - 1))
             last == s[Len(s)]
         IN IF \E i \in 1..Len(init) : init[i] = last THEN init
            ELSE Append(init, last)

RECURSIVE concatAll(_)
concatAll(ss) == IF ss = <<>> THEN <<>> ELSE Head(ss) \o concatAll(Tail(ss))

Range(s) == {s[i] : i \in 1..Len(s)}

\* ------------------------------------------------------------------------
\* The texts of the modelled project
\* ------------------------------------------------------------------------
SP == <<" ">>
w_fix == <<"f", "i", "x">>
w_the == <<"t", "h", "e">>
w_in == <<"i", "n">>
w_bug == <<"b", "u", "g">>
w_undefined == <<"u", "n", "d", "e", "f", "i", "n", "e", "d">>
w_crash == <<"c", "r", "a", "s", "h">>
w_login == <<"l", "o", "g", "i", "n">>
w_Login == <<"L", "o", "g", "i", "n">>
w_LOGIN == <<"L", "O", "G", "I", "N">>
w_handler == <<"h", "a", "n", "d", "l", "e", "r">>
w_start == <<"s", "t", "a", "r", "t">>
w_helpers == <<"h", "e", "l", "p", "e", "r", "s">>
w_body == <<"b", "o", "d", "y">>
w_user == <<"u", "s", "e", "r">>
w_form == <<"f", "o", "r", "m">>
w_page == <<"p", "a", "g", "e">>
w_auth == <<"a", "u", "t", "h">>
w_main == <<"m", "a", "i", "n">>
w_utils == <<"u", "t", "i", "l", "s">>
w_view == <<"v", "i", "e", "w">>
w_style == <<"s", "t", "y", "l", "e">>
w_notes == <<"n", "o", "t", "e", "s">>
w_lib == <<"l", "i", "b">>
w_App == <<"A", "p", "p">>
w_gone == <<"g", "o", "n", "e">>
w_lost == <<"l", "o", "s", "t">>
w_void == <<"v", "o", "i", "d">>

x_ts == <<".", "t", "s">>
x_tsx == <<".", "t", "s", "x">>
x_js == <<".", "j", "s">>
x_jsx == <<".", "j", "s", "x">>
x_md == <<".", "m", "d">>
x_html == <<".", "h", "t", "m", "l">>
x_css == <<".", "c", "s", "s">>

\* ------------------------------------------------------------------------
\* Paths (node's path module, POSIX flavour)
\* ------------------------------------------------------------------------
AbsPath(dir, file) == [abs |-> TRUE, dir |-> dir, file |-> file]
RelPath(dir, file) == [abs |-> FALSE, dir |-> dir, file |-> file]

\* path.isAbsolute
isAbsolute(p) == p.abs

\* path.join(base, p) for an absolute base directory (a sequence of
\* directory names) and a relative p
join(base, p) == [abs |-> TRUE, dir |-> base \o p.dir, file |-> p.file]

\* path.extname: from the last "." of the last segment to its end, empty
\* when there is none or when the segment starts with its only "."
extname(p) ==
    LET f == p.file
        dots == {i \in 2..Len(f) : f[i] = "."}
    IN IF dots = {} THEN <<>>
       ELSE LET k == CHOOSE i \in dots : \A j \in dots : j <= i
            IN SubSeq(f, k, Len(f))

\* path.basename
basename(p) == p.file

\* ------------------------------------------------------------------------
\* The filesystem
\* ------------------------------------------------------------------------
ProjDir == <<"proj">>
SrcDir == <<"proj", "src">>
ModulesDir == <<"proj", "node_modules">>
EmptyDir == <<"empty">>

f_App == AbsPath(ProjDir, w_App \o x_tsx)
f_Login == AbsPath(ProjDir, w_Login \o x_ts)
f_notes == AbsPath(ProjDir, w_notes \o x_md)
f_utils == AbsPath(ProjDir, w_utils \o x_ts)
f_view == AbsPath(ProjDir, w_view \o x_html)
f_style == AbsPath(ProjDir, w_style \o x_css)
f_lib == AbsPath(ModulesDir, w_lib \o x_js)
f_auth == AbsPath(SrcDir, w_auth \o x_js)
f_main == AbsPath(SrcDir, w_main \o x_ts)
f_handler == AbsPath(SrcDir, w_handler \o x_ts)

\* a second tree, /repo, with nested, ignored and oddly named entries
RepoDir == <<"repo">>
DistDir == <<"repo", "dist">>
DeepDir == <<"repo", "dist", "deep">>
DistsDir == <<"repo", "dists">>
MoreDir == <<"repo", "dists", "more">>
LibDir == <<"repo", "lib">>
LibModulesDir == <<"repo", "lib", "node_modules">>
PrivDir == <<"repo", "priv">>
InDir == <<"repo", "priv", "in">>
NowhereDir == <<"nowhere">>

r_a == AbsPath(RepoDir, <<"a", ".", "t", "s">>)
r_x == AbsPath(DistDir, <<"x", ".", "j", "s">>)
r_y == AbsPath(DeepDir, <<"y", ".", "t", "s">>)
r_h == AbsPath(DistsDir, <<"h", ".", "w", "g", "s", "l">>)
r_b == AbsPath(DistsDir, <<"b", ".", "J", "S">>)
r_c == AbsPath(DistsDir, <<"c", ".", "m", "d">>)
r_k == AbsPath(MoreDir, <<"k", ".", "j", "s", "o", "n">>)
r_z == AbsPath(LibModulesDir, <<"z", ".", "t", "s">>)
r_m == AbsPath(LibDir, <<"m", ".", "h", "t", "m", "l">>)
r_d == AbsPath(PrivDir, <<"d", ".", "c", "s", "s">>)
r_e == AbsPath(InDir, <<"e", ".", "j", "s", "o", "n">>)
r_f == AbsPath(RepoDir, <<"f", ".", "t", "s", "x">>)
r_g == AbsPath(RepoDir, <<"g", ".", "g", "l", "s", "l">>)

RepoFiles == {r_a, r_x, r_y, r_h, r_b, r_c, r_k, r_z, r_m, r_d, r_e, r_f, r_g}

\* paths that no modelled disk ever holds
g_gone == AbsPath(ProjDir, w_gone \o x_ts)
g_lost == AbsPath(ProjDir, w_lost \o x_js)
g_void == AbsPath(SrcDir, w_void \o x_ts)

\* what each file holds when it can be read
ContentOf(p) ==
    CASE p = f_App -> w_login \o SP \o w_page
      [] p = f_Login -> w_crash \o SP \o w_handler
      [] p = f_notes -> w_login
      [] p = f_utils -> w_helpers
      [] p = f_view -> w_login \o SP \o w_form
      [] p = f_style -> w_body
      [] p = f_lib -> w_login \o SP \o w_crash
      [] p = f_auth -> w_Login \o SP \o w_user
      [] p = f_main -> w_start
      [] p = f_handler -> w_undefined
      [] OTHER -> IF p \in RepoFiles THEN p.file ELSE <<>>

FileEntry(name) == [kind |-> "file", dname |-> "", fname |-> name]
DirEntry(name) == [kind |-> "dir", dname |-> name, fname |-> <<>>]

\* what readdir lists for each directory when every file is present, in the
\* order the operating system reports the entries
Listing(dir) ==
    CASE dir = ProjDir ->
            << FileEntry(f_App.file), FileEntry(f_Login.file),
               DirEntry("node_modules"), FileEntry(f_notes.file),
               DirEntry("src"), FileEntry(f_utils.file),
               FileEntry(f_view.file), FileEntry(f_style.file) >>
      [] dir = ModulesDir -> << FileEntry(f_lib.file) >>
      [] dir = SrcDir ->
            << FileEntry(f_auth.file), FileEntry(f_main.file),
               FileEntry(f_handler.file) >>
      [] dir = RepoDir ->
            << FileEntry(r_a.file), DirEntry("dist"), DirEntry("dists"),
               DirEntry("lib"), DirEntry("priv"), FileEntry(r_f.file),
               FileEntry(r_g.file) >>
      [] dir = DistDir -> << FileEntry(r_x.file), DirEntry("deep") >>
      [] dir = DeepDir -> << FileEntry(r_y.file) >>
      [] dir = DistsDir ->
            << FileEntry(r_h.file), FileEntry(r_b.file), FileEntry(r_c.file),
               DirEntry("more") >>
      [] dir = MoreDir -> << FileEntry(r_k.file) >>
      [] dir = LibDir -> << DirEntry("node_modules"), FileEntry(r_m.file) >>
      [] dir = LibModulesDir -> << FileEntry(r_z.file) >>
      [] dir = PrivDir -> << FileEntry(r_d.file), DirEntry("in") >>
      [] dir = InDir -> << FileEntry(r_e.file) >>
      [] OTHER -> <<>>

\* the directories that exist; readdir of any other path throws
Directories == {ProjDir, ModulesDir, SrcDir, EmptyDir, RepoDir, DistDir,
                DeepDir, DistsDir, MoreDir, LibDir, LibModulesDir, PrivDir,
                InDir}

AllFiles == {f_App, f_Login, f_notes, f_utils, f_view, f_style, f_lib,
             f_auth, f_main, f_handler} \cup RepoFiles

\* files that a disk may lack, and files that may exist without being
\* readable (no permission, or a directory of that name)
Removable == {f_Login, f_auth, f_App}
Lockable == {f_Login, f_main}

\* lockedDirs: directories that exist but cannot be listed
Disks ==
    {[missing |-> m, unreadable |-> u, lockedDirs |-> {}] :
        m \in {x \in SUBSET Removable : Cardinality(x) <= MaxMissing},
        u \in {x \in SUBSET Lockable : Cardinality(x) <= MaxUnreadable}}

\* the disks under /repo
RepoRemovable == {r_h, r_g}
RepoLockable == {r_d, r_k}
RepoLockableDirs == {PrivDir, MoreDir}

RepoDisks ==
    {[missing |-> m, unreadable |-> u, lockedDirs |-> l] :
        m \in {x \in SUBSET RepoRemovable : Cardinality(x) <= MaxMissing},
        u \in {x \in SUBSET RepoLockable : Cardinality(x) <= MaxUnreadable},
        l \in {x \in SUBSET RepoLockableDirs : Cardinality(x) <= MaxLockedDirs}}

\* fs.existsSync
existsSync(disk, p) == p \in AllFiles /\ p \notin disk.missing

\* whether fs.readFileSync / fs.promises.readFile returns instead of throwing
Readable(disk, p) == existsSync(disk, p) /\ p \notin disk.unreadable

\* ------------------------------------------------------------------------
\* Repository scanner (repo/scan.ts)
\* ------------------------------------------------------------------------
IGNORED_DIRS == {"node_modules", ".git", "dist", "build", ".next",
                 "coverage", "__pycache__"}

SUPPORTED_EXTENSIONS ==
    {x_ts, x_js, <<".", "w", "g", "s", "l">>, x_html, x_css,
     <<".", "j", "s", "o", "n">>, <<".", "g", "l", "s", "l">>}

ScannedFile(p, disk) ==
    [file |-> p.file, path |-> p, content |-> ContentOf(p),
     extension |-> toLowerCase(extname(p))]

\* the entries readdir reports: those of the listing that are on the disk
readdir(disk, dirPath) ==
    LET onDisk(e) == e.kind = "dir" \/ existsSync(disk, AbsPath(dirPath, e.fname))
    IN SelectSeq(Listing(dirPath), onDisk)

\* walkDirectory pushes onto the caller's array; the operator returns what
\* one call pushes, in order. A readdir that throws is caught and pushes
\* nothing; a readFile that throws is caught and skips that file only.
RECURSIVE walkDirectory(_, _)
walkEntry(disk, dirPath, entry) ==
    IF entry.kind = "dir"
    THEN IF entry.dname \notin IGNORED_DIRS
         THEN walkDirectory(disk, Append(dirPath, entry.dname))
         ELSE <<>>
    ELSE IF entry.kind = "file"
    THEN LET fullPath == AbsPath(dirPath, entry.fname)
             ext == toLowerCase(extname(fullPath))
         IN IF ext \in SUPPORTED_EXTENSIONS /\ Readable(disk, fullPath)
            THEN <<ScannedFile(fullPath, disk)>>
            ELSE <<>>
    ELSE <<>>

walkDirectory(disk, dirPath) ==
    IF dirPath \notin Directories \/ dirPath \in disk.lockedDirs THEN <<>>
    ELSE LET entries == readdir(disk, dirPath)
         IN concatAll([i \in 1..Len(entries) |-> walkEntry(disk, dirPath, entries[i])])

scanRepository(disk, rootPath) == walkDirectory(disk, rootPath)

\* ------------------------------------------------------------------------
\* Relevance cascade (agent/reader.ts)
\* ------------------------------------------------------------------------
\* An error log is a sequence of lines, each holding one POSIX path p:
\*   shape "paren":  at Object.fn (p:10:5)
\*   shape "bare":   at p:10:5
\*   shape "plain":  Error while loading p
Frame(shape, p) == [shape |-> shape, path |-> p]

\* the extensions the alternation (ts|js|tsx|jsx) accepts
TraceExt == {x_ts, x_js, x_tsx, x_jsx}

\* /at\s+.*?\((.+?\.(ts|js|tsx|jsx)):\d+:\d+\)/g on one line: the text
\* between "(" and ":line:col)"
matchParen(fr) ==
    IF fr.shape = "paren" /\ extname(fr.path) \in TraceExt
    THEN <<fr.path>> ELSE <<>>

\* /at\s+(.+?\.(ts|js|tsx|jsx)):\d+:\d+/g on one line: everything after
\* "at " up to ":line:col"; on a "paren" line that is the function name and
\* the bracket followed by the path, which is not an absolute path
matchAt(fr) ==
    IF fr.shape \in {"paren", "bare"} /\ extname(fr.path) \in TraceExt
    THEN IF fr.shape = "bare" THEN <<fr.path>>
         ELSE <<RelPath(<<"Object.fn (">> \o fr.path.dir, fr.path.file)>>
    ELSE <<>>

\* /([a-zA-Z]:\\[^:]+\.(ts|js|tsx|jsx))/g: the modelled lines hold no
\* drive letter followed by a backslash
matchWindows(fr) == <<>>

\* /([\/][^:\s]+\.(ts|js|tsx|jsx))/g on one line: from the first "/" over
\* the longest run without ":" or whitespace, cut back to the last "."
\* that ts or js follows; nothing follows the extension in the pattern, so
\* the alternatives tsx and jsx are never reached
matchUnix(fr) ==
    LET f == fr.path.file
        cuts == {k \in 1..(Len(f) - 2) :
                    f[k] = "." /\ SubSeq(f, k, k + 2) \in {x_ts, x_js}}
    IN IF cuts = {} THEN <<>>
       ELSE LET k == CHOOSE i \in cuts : \A j \in cuts : j <= i
            IN <<[fr.path EXCEPT !.file = SubSeq(f, 1, k + 2)]>>

extractFilesFromError(errorLog) ==
    LET n == Len(errorLog)
    IN uniqueSeq(
          concatAll([i \in 1..n |-> matchParen(errorLog[i])])
       \o concatAll([i \in 1..n |-> matchAt(errorLog[i])])
       \o concatAll([i \in 1..n |-> matchWindows(errorLog[i])])
       \o concatAll([i \in 1..n |-> matchUnix(errorLog[i])]))

FileContent(p) ==
    [path |-> p, content |-> ContentOf(p), extension |-> extname(p)]

\* loadOne without the join of a relative path with the base path
loadOneUnjoined(disk, basePath, filePath) ==
    IF existsSync(disk, filePath) /\ Readable(disk, filePath)
    THEN <<FileContent(filePath)>>
    ELSE <<>>

\* the body of the two loading loops: resolve, test existence, read; a
\* read that throws is caught and the path skipped
loadOne(disk, basePath, filePath) ==
    LET absolutePath == IF isAbsolute(filePath) THEN filePath
                        ELSE join(basePath, filePath)
    IN IF existsSync(disk, absolutePath) /\ Readable(disk, absolutePath)
       THEN <<FileContent(absolutePath)>>
       ELSE <<>>

loadAll(disk, basePath, paths) ==
    concatAll([i \in 1..Len(paths) |-> loadOne(disk, basePath, paths[i])])

\* explicitStage without its slice(0, 5)
explicitStageUncapped(disk, problem) ==
    loadAll(disk, problem.basePath, problem.filePaths)

\* Option 1: problem.filePaths.slice(0, 5), then the loading loop
explicitStage(disk, problem) ==
    loadAll(disk, problem.basePath, Slice(problem.filePaths, 5))

\* Option 2: extractFilesFromError(...).slice(0, 5), then the loading loop
stackTraceStage(disk, problem) ==
    loadAll(disk, problem.basePath,
            Slice(extractFilesFromError(problem.errorLog), 5))

\* description.toLowerCase().split(/\s+/).filter(w => w.length > 3)
keywordsOf(description) ==
    LET long(w) == Len(w) > 3
    IN SelectSeq(splitWhitespace(toLowerCase(description)), long)

RECURSIVE scoreFrom(_, _, _)
scoreFrom(f, keywords, i) ==
    IF i > Len(keywords) THEN 0
    ELSE (IF includes(toLowerCase(f.content), keywords[i]) THEN 1 ELSE 0)
       + (IF includes(toLowerCase(f.file), keywords[i]) THEN 2 ELSE 0)
       + scoreFrom(f, keywords, i + 1)

\* scoreOf with a filename hit counted 1 instead of 2
RECURSIVE scoreFlatFrom(_, _, _)
scoreFlatFrom(f, keywords, i) ==
    IF i > Len(keywords) THEN 0
    ELSE (IF includes(toLowerCase(f.content), keywords[i]) THEN 1 ELSE 0)
       + (IF includes(toLowerCase(f.file), keywords[i]) THEN 1 ELSE 0)
       + scoreFlatFrom(f, keywords, i + 1)

scoreOfFlat(f, keywords) == scoreFlatFrom(f, keywords, 1)

scoreOf(f, keywords) == scoreFrom(f, keywords, 1)

\* insertByScore of a sort that is not stable: an element also moves in
\* front of the elements with an equal score
RECURSIVE insertByScoreUnstable(_, _)
insertByScoreUnstable(sorted, sf) ==
    IF sorted = <<>> THEN <<sf>>
    ELSE IF sorted[Len(sorted)].score > sf.score THEN Append(sorted, sf)
    ELSE Append(insertByScoreUnstable(SubSeq(sorted, 1, Len(sorted) - 1), sf),
                sorted[Len(sorted)])

\* Array.prototype.sort((a, b) => b.score - a.score): the sort is stable
\* (ECMAScript 2019), so an element moves in front of exactly the elements
\* with a strictly smaller score
RECURSIVE insertByScore(_, _)
insertByScore(sorted, sf) ==
    IF sorted = <<>> THEN <<sf>>
    ELSE IF sorted[Len(sorted)].score >= sf.score THEN Append(sorted, sf)
    ELSE Append(insertByScore(SubSeq(sorted, 1, Len(sorted) - 1), sf),
                sorted[Len(sorted)])

RECURSIVE sortByScore(_)
sortByScore(s) ==
    IF s = <<>> THEN <<>>
    ELSE insertByScore(sortByScore(SubSeq(s, 1, Len(s) - 1)), s[Len(s)])

toFileContent(f) ==
    [path |-> f.path, content |-> f.content, extension |-> f.extension]

\* Option 3: score every scanned file, keep score > 0, sort, slice(0, 5)
keywordStage(allFiles, description) ==
    LET keywords == keywordsOf(description)
        scoredFiles == [i \in 1..Len(allFiles) |->
                          [file |-> allFiles[i],
                           score |-> scoreOf(allFiles[i], keywords)]]
        positive(sf) == sf.score > 0
        top == Slice(sortByScore(SelectSeq(scoredFiles, positive)), 5)
    IN [i \in 1..Len(top) |-> toFileContent(top[i].file)]

\* the fallback with the cap of the other options: allFiles.slice(0, 5)
fallbackStageFive(allFiles) ==
    LET first == Slice(allFiles, 5)
    IN [i \in 1..Len(first) |-> toFileContent(first[i])]

\* Fallback: allFiles.slice(0, 3)
fallbackStage(allFiles) ==
    LET first == Slice(allFiles, 3)
    IN [i \in 1..Len(first) |-> toFileContent(first[i])]

\* findRelatedFiles without the early return of Option 2: the files of the
\* stack trace are kept and the keyword matches of the scan are added
findRelatedFilesNoReturn(disk, problem) ==
    IF Len(problem.filePaths) > 0
    THEN [files |-> explicitStage(disk, problem), stage |-> 1, scanned |-> FALSE]
    ELSE LET traced == IF Len(problem.errorLog) > 0
                       THEN stackTraceStage(disk, problem) ELSE <<>>
             allFiles == scanRepository(disk, problem.basePath)
             relevantFiles == keywordStage(allFiles, problem.description)
         IN IF Len(traced) > 0
            THEN [files |-> Slice(traced \o relevantFiles, 5), stage |-> 2,
                  scanned |-> TRUE]
            ELSE IF Len(relevantFiles) > 0
                 THEN [files |-> relevantFiles, stage |-> 3, scanned |-> TRUE]
                 ELSE [files |-> fallbackStage(allFiles), stage |-> 4,
                       scanned |-> TRUE]

\* findRelatedFiles: the files returned, the option that returned them and
\* whether scanRepository was called on the way
findRelatedFiles(disk, problem) ==
    IF Len(problem.filePaths) > 0
    THEN [files |-> explicitStage(disk, problem), stage |-> 1, scanned |-> FALSE]
    ELSE LET traced == IF Len(problem.errorLog) > 0
                       THEN stackTraceStage(disk, problem) ELSE <<>>
         IN IF Len(traced) > 0
            THEN [files |-> traced, stage |-> 2, scanned |-> FALSE]
            ELSE LET allFiles == scanRepository(disk, problem.basePath)
                     relevantFiles == keywordStage(allFiles, problem.description)
                 IN IF Len(relevantFiles) > 0
                    THEN [files |-> relevantFiles, stage |-> 3, scanned |-> TRUE]
                    ELSE [files |-> fallbackStage(allFiles), stage |-> 4,
                          scanned |-> TRUE]

\* ------------------------------------------------------------------------
\* Prompt builders: the files whose content each prompt embeds
\* ------------------------------------------------------------------------
\* a prompt handed to the model facade: who built it and the paths of the
\* files whose content its text embeds, in order
Prompt(by, fs) == [by |-> by, embedded |-> [i \in 1..Len(fs) |-> fs[i].path]]

\* agent/analyzer.ts analyzeBugLogic: files.slice(0, 5)
analyzeBugLogicPrompt(fs) == Prompt("analyzeBugLogic", Slice(fs, 5))
\* agent/suggester.ts suggestFix: files.slice(0, 3)
suggestFixPrompt(fs) == Prompt("suggestFix", Slice(fs, 3))
\* modes/debug.ts runDebugMode: files.slice(0, 5)
runDebugModePrompt(fs) == Prompt("runDebugMode", Slice(fs, 5))
\* modes/concept.ts runConceptMode: files.slice(0, 8)
runConceptModePrompt(fs) == Prompt("runConceptMode", Slice(fs, 8))
\* modes/feature.ts runFeatureMode: files.slice(0, 5)
runFeatureModePrompt(fs) == Prompt("runFeatureMode", Slice(fs, 5))
\* llm/ollama.ts analyzeBug: files.slice(0, 5)
analyzeBugPrompt(fs) == Prompt("analyzeBug", Slice(fs, 5))
\* modes/chat.ts chat, debugChat, conceptChat, featureChat
chatPrompt(cmd, fs) ==
    CASE cmd = "chat" -> Prompt("chat", Slice(fs, 3))
      [] cmd = "/debug" -> Prompt("debugChat", Slice(fs, 5))
      [] cmd = "/concept" -> Prompt("conceptChat", Slice(fs, 5))
      [] cmd = "/feature" -> Prompt("featureChat", Slice(fs, 3))

ChatCommands == {"chat", "/debug", "/concept", "/feature"}

\* ------------------------------------------------------------------------
\* Bug analysis CLI (agent/bugAnalyzer.ts)
\* ------------------------------------------------------------------------
\* process.cwd() of the command-line tools
Cwd == ProjDir

BugFile(p) == [path |-> p, content |-> ContentOf(p)]

bugLoadOne(disk, filePath) ==
    LET absolutePath == IF isAbsolute(filePath) THEN filePath
                        ELSE join(Cwd, filePath)
    IN IF existsSync(disk, absolutePath) /\ Readable(disk, absolutePath)
       THEN <<BugFile(absolutePath)>>
       ELSE <<>>

\* loadFiles: filePaths.slice(0, 5), path.resolve, existence test, read
loadFiles(disk, filePaths) ==
    LET paths == Slice(filePaths, 5)
    IN concatAll([i \in 1..Len(paths) |-> bugLoadOne(disk, paths[i])])

\* selectRelevantFiles on a log whose every path is followed by ":line:col"
\* (shapes "paren" and "bare"): errorLog.match(filePattern) gives, per line,
\* the path cut back to the last "." that ts or js follows
selectRelevantFiles(disk, errorLog) ==
    LET matches == concatAll([i \in 1..Len(errorLog) |-> matchUnix(errorLog[i])])
        uniquePaths == Slice(uniqueSeq(matches), 5)
    IN concatAll([i \in 1..Len(uniquePaths) |-> bugLoadOne(disk, uniquePaths[i])])

\* ------------------------------------------------------------------------
\* Inputs
\* ------------------------------------------------------------------------
\* "fix the undefined crash in login handler"
D_spec == w_fix \o SP \o w_the \o SP \o w_undefined \o SP \o w_crash \o SP
          \o w_in \o SP \o w_login \o SP \o w_handler
\* "fix the bug": no word longer than 3 characters
D_short == w_fix \o SP \o w_the \o SP \o w_bug
\* "Login start helpers body": six scanned files score above 0
D_many == w_Login \o SP \o w_start \o SP \o w_helpers \o SP \o w_body
\* " LOGIN \t login start style ": upper case, a repeated word, runs of
\* whitespace inside and around
D_dup == SP \o w_LOGIN \o <<" ", "\t">> \o w_login \o SP \o w_start \o SP
         \o w_style \o SP

Descriptions == {D_spec, D_short, D_many, D_dup}

ExplicitOrderA ==
    << f_Login, RelPath(<<>>, f_utils.file), f_App, f_auth, f_main, g_gone,
       f_view, f_style, f_handler >>
ExplicitOrderB ==
    << f_auth, f_Login, RelPath(<<"src">>, f_main.file), f_App, f_view,
       f_style, f_Login, f_handler, f_utils >>

ExplicitLists ==
    {Slice(o, n) : o \in {ExplicitOrderA, ExplicitOrderB}, n \in 1..MaxExplicit}

FramesA ==
    << Frame("paren", g_gone), Frame("paren", g_lost), Frame("paren", g_void),
       Frame("bare", f_Login), Frame("plain", f_auth), Frame("bare", f_main) >>
FramesB ==
    << Frame("bare", f_Login), Frame("paren", f_App), Frame("plain", f_utils),
       Frame("bare", g_gone), Frame("paren", f_auth), Frame("bare", f_view) >>

ErrorLogs == {Slice(o, n) : o \in {FramesA, FramesB}, n \in 0..MaxFrames}

BasePaths == {ProjDir, SrcDir, EmptyDir}

\* The description and the error log of one ProblemInput are the two views
\* of the user's text the cascade reads: the words of the description, and
\* the stack-trace lines of the log. An absent or empty log has no lines.
ProblemInputs ==
    {[description |-> D_spec, errorLog |-> l, filePaths |-> fp, basePath |-> b] :
        l \in {<<>>, Slice(FramesB, 1)}, fp \in ExplicitLists,
        b \in {ProjDir, SrcDir}}
    \cup
    {[description |-> d, errorLog |-> l, filePaths |-> <<>>, basePath |-> b] :
        d \in Descriptions, l \in ErrorLogs, b \in BasePaths}

NoProblem ==
    [description |-> <<>>, errorLog |-> <<>>, filePaths |-> <<>>, basePath |-> <<>>]

\* logs whose every path is followed by ":line:col"
BugLogs ==
    {l \in ErrorLogs : \A i \in 1..Len(l) : l[i].shape \in {"paren", "bare"}}

\* most questions asked in one chat session
MaxTurns == 2

\* an invocation of scanRepository: where it stands, the directory it was
\* given, the directories it is inside of (innermost last) and its own
\* files array
NoScan == [pc |-> "idle", root |-> <<>>, stack |-> <<>>, out |-> <<>>]
Invocations == {1, 2}
NoScans == [id \in Invocations |-> NoScan]


\* ------------------------------------------------------------------------
\* Dependency analyzer (repo/dependency.ts)
\* ------------------------------------------------------------------------
Str_import == <<"i", "m", "p", "o", "r", "t">>
Str_from == <<"f", "r", "o", "m">>
Str_require == <<"r", "e", "q", "u", "i", "r", "e">>
Str_index == <<"i", "n", "d", "e", "x">>

\* String.prototype.startsWith
startsWith(s, prefix) ==
    Len(prefix) <= Len(s) /\ SubSeq(s, 1, Len(prefix)) = prefix

\* prefix occurs in s from position i on
occursAt(s, i, prefix) ==
    i >= 1 /\ i + Len(prefix) - 1 <= Len(s)
       /\ SubSeq(s, i, i + Len(prefix) - 1) = prefix

\* String.prototype.trim
trim(s) ==
    LET inked == {i \in 1..Len(s) : ~IsSpace(s[i])}
    IN IF inked = {} THEN <<>>
       ELSE SubSeq(s, CHOOSE i \in inked : \A j \in inked : i <= j,
                      CHOOSE i \in inked : \A j \in inked : j <= i)

\* content.split('\n'): the runs between the line feeds, empty runs kept
splitLines(s) ==
    LET feeds == {i \in 1..Len(s) : s[i] = "\n"}
        feed(k) == IF k = 0 THEN 0
                   ELSE IF k > Cardinality(feeds) THEN Len(s) + 1
                   ELSE CHOOSE i \in feeds : Cardinality({j \in feeds : j <= i}) = k
    IN [k \in 1..(Cardinality(feeds) + 1) |->
          SubSeq(s, feed(k - 1) + 1, feed(k) - 1)]

\* lines.join('\n'), how the contents of the batches are written down
RECURSIVE joinLines(_)
joinLines(ls) ==
    IF Len(ls) = 0 THEN <<>>
    ELSE IF Len(ls) = 1 THEN ls[1]
    ELSE ls[1] \o <<"\n">> \o joinLines(Tail(ls))

IsQuote(c) == c \in {"'", "\""}

\* where \s* or \s+ entered at position i stops: the first position from i
\* on that holds no whitespace, Len + 1 when there is none
skipSpaces(t, i) ==
    LET inked == {k \in i..Len(t) : ~IsSpace(t[k])}
    IN IF inked = {} THEN Len(t) + 1
       ELSE CHOOSE k \in inked : \A l \in inked : k <= l

\* ['"](.+?)['"] entered at position j: the closing quotes it can end at
closingQuotes(t, j) ==
    IF j <= Len(t) /\ IsQuote(t[j])
    THEN {k \in (j + 2)..Len(t) : IsQuote(t[k])}
    ELSE {}

least(S) == CHOOSE k \in S : \A l \in S : k <= l

\* ^import\s+.*?from\s+['"](.+?)['"] : the module path, <<>> without match
matchImportFrom(t) ==
    LET froms == {i \in 8..Len(t) :
                     /\ occursAt(t, i, Str_from)
                     /\ i + 4 <= Len(t) /\ IsSpace(t[i + 4])
                     /\ closingQuotes(t, skipSpaces(t, i + 4)) # {}}
    IN IF startsWith(t, Str_import) /\ Len(t) >= 7 /\ IsSpace(t[7]) /\ froms # {}
       THEN LET j == skipSpaces(t, least(froms) + 4)
            IN SubSeq(t, j + 1, least(closingQuotes(t, j)) - 1)
       ELSE <<>>

\* ^import\s+['"](.+?)['"]
matchImportBare(t) ==
    IF startsWith(t, Str_import) /\ Len(t) >= 7 /\ IsSpace(t[7])
          /\ closingQuotes(t, skipSpaces(t, 7)) # {}
    THEN LET j == skipSpaces(t, 7)
         IN SubSeq(t, j + 1, least(closingQuotes(t, j)) - 1)
    ELSE <<>>

\* the alternation of the import pattern: the first alternative that
\* matches at the start of the line
matchImport(t) ==
    LET first == matchImportFrom(t)
    IN IF first # <<>> THEN first ELSE matchImportBare(t)

\* require\s*\(\s*['"](.+?)['"]\s*\) anywhere in the line, leftmost match
matchRequire(t) ==
    LET paren(p) == skipSpaces(t, p + 7)
        quote(p) == skipSpaces(t, paren(p) + 1)
        ends(p) == {k \in closingQuotes(t, quote(p)) :
                       LET c == skipSpaces(t, k + 1)
                       IN c <= Len(t) /\ t[c] = ")"}
        starts == {p \in 1..Len(t) :
                      /\ occursAt(t, p, Str_require)
                      /\ paren(p) <= Len(t) /\ t[paren(p)] = "("
                      /\ ends(p) # {}}
    IN IF starts = {} THEN <<>>
       ELSE LET p == least(starts)
            IN SubSeq(t, quote(p) + 1, least(ends(p)) - 1)

\* every import resolved like a relative one
createImportInfoAllRelative(raw, modulePath) ==
    [raw |-> raw, module |-> modulePath, isRelative |-> TRUE,
     isPackage |-> FALSE]

createImportInfo(raw, modulePath) ==
    LET isRelative == \/ startsWith(modulePath, <<".", "/">>)
                      \/ startsWith(modulePath, <<".", ".", "/">>)
    IN [raw |-> raw, module |-> modulePath, isRelative |-> isRelative,
        isPackage |-> ~isRelative]

\* the loop body with the require pattern tried first
parseLineRequireFirst(line) ==
    LET trimmed == trim(line)
        importMatch == matchImport(trimmed)
        requireMatch == matchRequire(trimmed)
    IN IF startsWith(trimmed, <<"/", "/">>) \/ startsWith(trimmed, <<"*">>)
       THEN <<>>
       ELSE IF requireMatch # <<>>
       THEN <<createImportInfo(trimmed, requireMatch)>>
       ELSE IF importMatch # <<>>
       THEN <<createImportInfo(trimmed, importMatch)>>
       ELSE <<>>

\* the body of the loop of parseImports: what one line pushes
parseLine(line) ==
    LET trimmed == trim(line)
        importMatch == matchImport(trimmed)
        requireMatch == matchRequire(trimmed)
    IN IF startsWith(trimmed, <<"/", "/">>) \/ startsWith(trimmed, <<"*">>)
       THEN <<>>
       ELSE IF importMatch # <<>>
       THEN <<createImportInfo(trimmed, importMatch)>>
       ELSE IF requireMatch # <<>>
       THEN <<createImportInfo(trimmed, requireMatch)>>
       ELSE <<>>

parseImports(content) ==
    LET lines == splitLines(content)
    IN concatAll([i \in 1..Len(lines) |-> parseLine(lines[i])])

\* path.basename of a module path: trailing slashes dropped, then what
\* follows the last slash
basenameOf(s) ==
    LET solid == {i \in 1..Len(s) : s[i] # "/"}
    IN IF solid = {} THEN <<>>
       ELSE LET last == CHOOSE i \in solid : \A j \in solid : j <= i
                slashes == {i \in 1..last : s[i] = "/"}
                first == IF slashes = {} THEN 1
                         ELSE (CHOOSE i \in slashes : \A j \in slashes : j <= i) + 1
            IN SubSeq(s, first, last)

\* null, told apart from every file name: no file name is empty
Null == <<>>

ResolveExtensions == <<x_ts, x_js, x_tsx, x_jsx, <<".", "w", "g", "s", "l">>>>

\* the first element of a sequence of names that is in the set, else null
RECURSIVE firstIn(_, _)
firstIn(names, existingFiles) ==
    IF Len(names) = 0 THEN Null
    ELSE IF Head(names) \in existingFiles THEN Head(names)
    ELSE firstIn(Tail(names), existingFiles)

\* resolveImport preferring .js files over .ts files
resolveImportJsFirst(modulePath, existingFiles) ==
    LET baseName == basenameOf(modulePath)
        extensions == <<x_js, x_ts, x_tsx, x_jsx, <<".", "w", "g", "s", "l">>>>
        withExt == firstIn([i \in 1..Len(extensions) |-> baseName \o extensions[i]],
                           existingFiles)
        indexFile == firstIn([i \in 1..Len(extensions) |-> Str_index \o extensions[i]],
                             existingFiles)
    IN IF baseName \in existingFiles THEN baseName
       ELSE IF withExt # Null THEN withExt
       ELSE indexFile

\* resolveImport answering with the .ts name it did not find
resolveImportGuessing(modulePath, existingFiles) ==
    LET baseName == basenameOf(modulePath)
        extensions == ResolveExtensions
        withExt == firstIn([i \in 1..Len(extensions) |-> baseName \o extensions[i]],
                           existingFiles)
        indexFile == firstIn([i \in 1..Len(extensions) |-> Str_index \o extensions[i]],
                             existingFiles)
    IN IF baseName \in existingFiles THEN baseName
       ELSE IF withExt # Null THEN withExt
       ELSE IF indexFile # Null THEN indexFile
       ELSE baseName \o x_ts

resolveImport(modulePath, existingFiles) ==
    LET baseName == basenameOf(modulePath)
        extensions == ResolveExtensions
        withExt == firstIn([i \in 1..Len(extensions) |-> baseName \o extensions[i]],
                           existingFiles)
        indexFile == firstIn([i \in 1..Len(extensions) |-> Str_index \o extensions[i]],
                             existingFiles)
    IN IF baseName \in existingFiles THEN baseName
       ELSE IF withExt # Null THEN withExt
       ELSE indexFile

\* the resolved relative imports of one file, nulls left out
dependenciesOf(imports, fileNames) ==
    LET relative(imp) == imp.isRelative
        notNull(f) == f # Null
        rel == SelectSeq(imports, relative)
    IN SelectSeq([i \in 1..Len(rel) |-> resolveImport(rel[i].module, fileNames)],
                 notNull)

\* dependencyMap[key] = value on an object whose keys keep the order of
\* their first assignment
mapSet(map, key, value) ==
    IF \E i \in 1..Len(map) : map[i].file = key
    THEN [i \in 1..Len(map) |->
            IF map[i].file = key THEN [file |-> key, deps |-> value] ELSE map[i]]
    ELSE Append(map, [file |-> key, deps |-> value])

RECURSIVE buildFrom(_, _, _, _)
buildFrom(batch, i, fileNames, map) ==
    IF i > Len(batch) THEN map
    ELSE buildFrom(batch, i + 1, fileNames,
                   mapSet(map, batch[i].file,
                          dependenciesOf(parseImports(batch[i].content), fileNames)))

buildDependencyMap(batch) ==
    buildFrom(batch, 1, {batch[i].file : i \in 1..Len(batch)}, <<>>)

analyzeFileDependencies(file, allFiles) ==
    LET fileNames == {allFiles[i].file : i \in 1..Len(allFiles)}
        imports == parseImports(file.content)
    IN [file |-> file.file, imports |-> imports,
        dependsOn |-> dependenciesOf(imports, fileNames)]

findDependents(targetFile, map) ==
    LET includesTarget(e) == targetFile \in Range(e.deps)
        hit == SelectSeq(map, includesTarget)
    IN [i \in 1..Len(hit) |-> hit[i].file]

\* the lines the files of the batches are written with
\* import { a } from './shared'
l_importFrom ==
    <<"i", "m", "p", "o", "r", "t", " ", "{", " ", "a", " ", "}", " ", "f",
      "r", "o", "m", " ", "'", ".", "/", "s", "h", "a", "r", "e", "d", "'">>

\* import './shared.ts'
l_sideEffect ==
    <<"i", "m", "p", "o", "r", "t", " ", "'", ".", "/", "s", "h", "a", "r",
      "e", "d", ".", "t", "s", "'">>

\* const x = require("../lib/index")
l_require ==
    <<"c", "o", "n", "s", "t", " ", "x", " ", "=", " ", "r", "e", "q", "u",
      "i", "r", "e", "(", "\"", ".", ".", "/", "l", "i", "b", "/", "i",
      "n", "d", "e", "x", "\"", ")">>

\* // import x from './shared'
l_lineComment ==
    <<"/", "/", " ", "i", "m", "p", "o", "r", "t", " ", "x", " ", "f", "r",
      "o", "m", " ", "'", ".", "/", "s", "h", "a", "r", "e", "d", "'">>

\*  * require('./shared')
l_starComment ==
    <<" ", "*", " ", "r", "e", "q", "u", "i", "r", "e", "(", "'", ".", "/",
      "s", "h", "a", "r", "e", "d", "'", ")">>

\* /* require('./legacy') */
l_blockComment ==
    <<"/", "*", " ", "r", "e", "q", "u", "i", "r", "e", "(", "'", ".", "/",
      "l", "e", "g", "a", "c", "y", "'", ")", " ", "*", "/">>

\* import _ from 'lodash'
l_package ==
    <<"i", "m", "p", "o", "r", "t", " ", "_", " ", "f", "r", "o", "m", " ",
      "'", "l", "o", "d", "a", "s", "h", "'">>

\* import h from './helper'; require('./shared')
l_importAndRequire ==
    <<"i", "m", "p", "o", "r", "t", " ", "h", " ", "f", "r", "o", "m", " ",
      "'", ".", "/", "h", "e", "l", "p", "e", "r", "'", ";", " ", "r", "e",
      "q", "u", "i", "r", "e", "(", "'", ".", "/", "s", "h", "a", "r", "e",
      "d", "'", ")">>

\* <tab> import * as u from "./utils/missing"  
l_indented ==
    <<"\t", " ", "i", "m", "p", "o", "r", "t", " ", "*", " ", "a", "s",
      " ", "u", " ", "f", "r", "o", "m", " ", "\"", ".", "/", "u", "t",
      "i", "l", "s", "/", "m", "i", "s", "s", "i", "n", "g", "\"", " ",
      " ">>

\* require('./shared'); require('./helper')
l_twoRequires ==
    <<"r", "e", "q", "u", "i", "r", "e", "(", "'", ".", "/", "s", "h", "a",
      "r", "e", "d", "'", ")", ";", " ", "r", "e", "q", "u", "i", "r", "e",
      "(", "'", ".", "/", "h", "e", "l", "p", "e", "r", "'", ")">>

\* const y = 1
l_plain ==
    <<"c", "o", "n", "s", "t", " ", "y", " ", "=", " ", "1">>
n_helper == <<"h", "e", "l", "p", "e", "r", ".", "t", "s">>
n_shared_ts == <<"s", "h", "a", "r", "e", "d", ".", "t", "s">>
n_shared_js == <<"s", "h", "a", "r", "e", "d", ".", "j", "s">>
n_index == <<"i", "n", "d", "e", "x", ".", "t", "s">>
n_lodash == <<"l", "o", "d", "a", "s", "h", ".", "t", "s">>
n_main == <<"m", "a", "i", "n", ".", "j", "s">>
n_legacy == <<"l", "e", "g", "a", "c", "y", ".", "t", "s">>

\* a ScannedFile of a batch: its directory, its name and its lines
Scanned(dir, name, lines) ==
    [file |-> name, path |-> AbsPath(dir, name), content |-> joinLines(lines),
     extension |-> toLowerCase(extname(AbsPath(dir, name)))]

b_helper == Scanned(<<"app">>, n_helper, <<l_importFrom, l_package, l_lineComment>>)
b_helper2 == Scanned(<<"app", "old">>, n_helper, <<l_plain>>)
b_shared_ts == Scanned(<<"app">>, n_shared_ts, <<l_starComment, l_blockComment>>)
b_shared_js == Scanned(<<"app">>, n_shared_js, <<l_sideEffect, l_twoRequires>>)
b_index == Scanned(<<"app">>, n_index, <<l_importAndRequire, l_plain>>)
b_lodash == Scanned(<<"app">>, n_lodash, <<l_indented>>)
b_main == Scanned(<<"app">>, n_main, <<l_require, l_package, l_importFrom>>)

BatchPool == {b_helper, b_helper2, b_shared_ts, b_shared_js, b_index, b_lodash,
              b_main}

\* most files in a scan batch
MaxBatch == 3

\* the scan batches: files of the pool, each at most once, in any order
Batches ==
    {b \in UNION {[1..n -> BatchPool] : n \in 0..MaxBatch} :
        \A i, j \in 1..Len(b) : b[i] = b[j] => i = j}

\* the names findDependents is asked about
Targets == {n_helper, n_shared_ts, n_index, n_legacy}

\* the dependency analysis of one batch: the map once it is built, the
\* file analyzeFileDependencies was last asked about and its answer, the
\* name findDependents was last asked about and its answer
NoDep == [pc |-> "idle", batch |-> <<>>, map |-> <<>>, analysed |-> 0,
          detail |-> <<>>, target |-> <<>>, dependents |-> <<>>]

\* ------------------------------------------------------------------------
\* JSON.parse and the values it yields
\* ------------------------------------------------------------------------
\* A JavaScript value: its type, and its text (string), its number (number;
\* 1 or 0 for true and false) or its items (the elements of an array, the
\* key-value members of an object in source order).
Value(t, s, n, items) == [t |-> t, s |-> s, n |-> n, items |-> items]
Undefined == Value("undefined", <<>>, 0, <<>>)
JsNull == Value("null", <<>>, 0, <<>>)
Bool(b) == Value("boolean", <<>>, IF b THEN 1 ELSE 0, <<>>)
Num(n) == Value("number", <<>>, n, <<>>)
Str(s) == Value("string", s, 0, <<>>)
Arr(items) == Value("array", <<>>, 0, items)
Obj(members) == Value("object", <<>>, 0, members)

Digits == <<"0", "1", "2", "3", "4", "5", "6", "7", "8", "9">>
IsDigit(c) == c \in Range(Digits)
DigitValue(c) == (CHOOSE d \in 1..10 : Digits[d] = c) - 1

RECURSIVE NumberOf(_)
NumberOf(run) ==
    IF run = <<>> THEN 0
    ELSE NumberOf(SubSeq(run, 1, Len(run) - 1)) * 10 + DigitValue(run[Len(run)])

Str_null ==
    <<"n", "u", "l", "l">>
Str_true ==
    <<"t", "r", "u", "e">>
Str_false ==
    <<"f", "a", "l", "s", "e">>

\* a token of a JSON text; "bad" for what begins no token
Token(t, s, n) == [t |-> t, s |-> s, n |-> n]
BadToken == Token("bad", <<>>, 0)

\* The tokens of s from position i on, for texts whose strings hold no
\* escape and whose numbers are unsigned integers; a string may not hold a
\* raw line feed or tab, a number of several digits may not begin with 0.
\* The tokens end with "bad" when the text cannot be split further.
RECURSIVE tokensFrom(_, _)
tokensFrom(s, i) ==
    LET p == skipSpaces(s, i)
    IN IF p > Len(s) THEN <<>>
       ELSE IF s[p] \in {"{", "}", "[", "]", ":", ","}
       THEN <<Token("punct", <<s[p]>>, 0)>> \o tokensFrom(s, p + 1)
       ELSE IF s[p] = "\""
       THEN LET ends == {k \in (p + 1)..Len(s) : s[k] = "\""}
            IN IF ends = {} THEN <<BadToken>>
               ELSE LET body == SubSeq(s, p + 1, least(ends) - 1)
                    IN IF \E k \in 1..Len(body) : body[k] \in {"\n", "\t"}
                       THEN <<BadToken>>
                       ELSE <<Token("string", body, 0)>>
                               \o tokensFrom(s, least(ends) + 1)
       ELSE IF IsDigit(s[p])
       THEN LET stop == least({k \in p..(Len(s) + 1) :
                                  k > Len(s) \/ ~IsDigit(s[k])})
                run == SubSeq(s, p, stop - 1)
            IN IF Len(run) > 1 /\ run[1] = "0" THEN <<BadToken>>
               ELSE <<Token("number", <<>>, NumberOf(run))>> \o tokensFrom(s, stop)
       ELSE IF occursAt(s, p, Str_null)
       THEN <<Token("null", <<>>, 0)>> \o tokensFrom(s, p + 4)
       ELSE IF occursAt(s, p, Str_true)
       THEN <<Token("boolean", <<>>, 1)>> \o tokensFrom(s, p + 4)
       ELSE IF occursAt(s, p, Str_false)
       THEN <<Token("boolean", <<>>, 0)>> \o tokensFrom(s, p + 5)
       ELSE <<BadToken>>

IsPunct(toks, i, c) ==
    i <= Len(toks) /\ toks[i].t = "punct" /\ toks[i].s = <<c>>

\* the result of parsing from token i: whether a value was read, the
\* value, the token after it
NoParse == [ok |-> FALSE, v |-> Undefined, next |-> 0]
Parsed(v, next) == [ok |-> TRUE, v |-> v, next |-> next]

RECURSIVE parseValue(_, _)
RECURSIVE parseMembers(_, _, _)
RECURSIVE parseElements(_, _, _)

\* value := string | number | null | true | false | object | array
parseValue(toks, i) ==
    IF i > Len(toks) THEN NoParse
    ELSE IF toks[i].t = "string" THEN Parsed(Str(toks[i].s), i + 1)
    ELSE IF toks[i].t = "number" THEN Parsed(Num(toks[i].n), i + 1)
    ELSE IF toks[i].t = "null" THEN Parsed(JsNull, i + 1)
    ELSE IF toks[i].t = "boolean" THEN Parsed(Bool(toks[i].n = 1), i + 1)
    ELSE IF IsPunct(toks, i, "{")
    THEN IF IsPunct(toks, i + 1, "}") THEN Parsed(Obj(<<>>), i + 2)
         ELSE parseMembers(toks, i + 1, <<>>)
    ELSE IF IsPunct(toks, i, "[")
    THEN IF IsPunct(toks, i + 1, "]") THEN Parsed(Arr(<<>>), i + 2)
         ELSE parseElements(toks, i + 1, <<>>)
    ELSE NoParse

\* members := string ':' value (',' string ':' value)* '}'
parseMembers(toks, i, acc) ==
    IF ~(i <= Len(toks) /\ toks[i].t = "string" /\ IsPunct(toks, i + 1, ":"))
    THEN NoParse
    ELSE LET r == parseValue(toks, i + 2)
             members == Append(acc, [k |-> toks[i].s, v |-> r.v])
         IN IF ~r.ok THEN NoParse
            ELSE IF IsPunct(toks, r.next, "}") THEN Parsed(Obj(members), r.next + 1)
            ELSE IF IsPunct(toks, r.next, ",")
            THEN parseMembers(toks, r.next + 1, members)
            ELSE NoParse

\* elements := value (',' value)* ']'
parseElements(toks, i, acc) ==
    LET r == parseValue(toks, i)
        elements == Append(acc, r.v)
    IN IF ~r.ok THEN NoParse
       ELSE IF IsPunct(toks, r.next, "]") THEN Parsed(Arr(elements), r.next + 1)
       ELSE IF IsPunct(toks, r.next, ",")
       THEN parseElements(toks, r.next + 1, elements)
       ELSE NoParse

\* JSON.parse(text): the value, or ok = FALSE where it throws SyntaxError
JSONparse(text) ==
    LET toks == tokensFrom(text, 1)
        r == parseValue(toks, 1)
    IN IF r.ok /\ r.next = Len(toks) + 1 THEN [ok |-> TRUE, v |-> r.v]
       ELSE [ok |-> FALSE, v |-> Undefined]

\* value.key for one of the keys read by the code: the last member of that
\* key in an object, undefined in any other value but null and undefined,
\* on which the read throws TypeError
hasProperties(value) == value.t \notin {"null", "undefined"}
getProperty(value, key) ==
    LET hits == {i \in 1..Len(value.items) : value.items[i].k = key}
    IN IF value.t = "object" /\ hits # {}
       THEN value.items[CHOOSE i \in hits : \A j \in hits : j <= i].v
       ELSE Undefined

\* ToBoolean
truthy(value) ==
    CASE value.t \in {"undefined", "null"} -> FALSE
      [] value.t \in {"boolean", "number"} -> value.n # 0
      [] value.t = "string" -> value.s # <<>>
      [] OTHER -> TRUE

\* a || b
orElse(a, b) == IF truthy(a) THEN a ELSE b

\* ------------------------------------------------------------------------
\* agent/analyzer.ts
\* ------------------------------------------------------------------------
\* the fences; a TLA+ string cannot hold the backquote, the texts of this
\* module hold ^ in its place
Str_fenceJson ==
    <<"^", "^", "^", "j", "s", "o", "n">>
Str_fence ==
    <<"^", "^", "^">>
Str_bugExplanation ==
    <<"b", "u", "g", "E", "x", "p", "l", "a", "n", "a", "t", "i", "o", "n">>
Str_rootCause ==
    <<"r", "o", "o", "t", "C", "a", "u", "s", "e">>
Str_affectedCode ==
    <<"a", "f", "f", "e", "c", "t", "e", "d", "C", "o", "d", "e">>
Str_severity ==
    <<"s", "e", "v", "e", "r", "i", "t", "y">>
Str_summary ==
    <<"s", "u", "m", "m", "a", "r", "y">>
Str_low ==
    <<"l", "o", "w">>
Str_medium ==
    <<"m", "e", "d", "i", "u", "m">>
Str_high ==
    <<"h", "i", "g", "h">>
Str_critical ==
    <<"c", "r", "i", "t", "i", "c", "a", "l">>
Str_unable ==
    <<"U", "n", "a", "b", "l", "e", " ", "t", "o", " ", "d", "e", "t", "e",
      "r", "m", "i", "n", "e", " ", "r", "o", "o", "t", " ", "c", "a", "u",
      "s", "e">>
Str_seeAbove ==
    <<"S", "e", "e", " ", "e", "x", "p", "l", "a", "n", "a", "t", "i", "o",
      "n", " ", "a", "b", "o", "v", "e">>

\* the first replace: the opening fence and a line feed after it go, on a text that
\* starts with the fence
dropOpeningFence(t, fence) ==
    LET after == Len(fence) + 1
    IN IF after <= Len(t) /\ t[after] = "\n" THEN SubSeq(t, after + 1, Len(t))
       ELSE SubSeq(t, after, Len(t))

\* the second replace: a fence at the very end and a line feed before it go
dropClosingFence(t) ==
    IF occursAt(t, Len(t) - 3, <<"\n">> \o Str_fence) THEN SubSeq(t, 1, Len(t) - 4)
    ELSE IF occursAt(t, Len(t) - 2, Str_fence) THEN SubSeq(t, 1, Len(t) - 3)
    ELSE t

\* the clean-up of the response before it is parsed
cleanResponse(response) ==
    LET trimmed == trim(response)
    IN IF startsWith(trimmed, Str_fenceJson)
       THEN dropClosingFence(dropOpeningFence(trimmed, Str_fenceJson))
       ELSE IF startsWith(trimmed, Str_fence)
       THEN dropClosingFence(dropOpeningFence(trimmed, Str_fence))
       ELSE trimmed

\* a path as the string the program holds
PathText(p) ==
    concatAll([i \in 1..Len(p.dir) |-> <<"/", p.dir[i]>>]) \o <<"/">> \o p.file

pathsOf(fs) == Arr([i \in 1..Len(fs) |-> Str(PathText(fs[i].path))])

BugAnalysis(bugExplanation, rootCause, affectedCode, severity, summary) ==
    [bugExplanation |-> bugExplanation, rootCause |-> rootCause,
     affectedCode |-> affectedCode, severity |-> severity, summary |-> summary]

NoAnalysis == BugAnalysis(Undefined, Undefined, Undefined, Undefined, Undefined)

\* the result of the inner catch block
unstructured(description, fs, response) ==
    BugAnalysis(Str(response), Str(Str_seeAbove), pathsOf(fs), Str(Str_medium),
                Str(description))

\* the body of the inner try block: threw where JSON.parse or a read of
\* parsed.x throws
structured(description, fs, response) ==
    LET parsed == JSONparse(cleanResponse(response))
        field(key) == getProperty(parsed.v, key)
    IN IF ~parsed.ok \/ ~hasProperties(parsed.v)
       THEN [threw |-> TRUE, value |-> NoAnalysis]
       ELSE [threw |-> FALSE,
             value |-> BugAnalysis(orElse(field(Str_bugExplanation), Str(response)),
                                   orElse(field(Str_rootCause), Str(Str_unable)),
                                   orElse(field(Str_affectedCode), pathsOf(fs)),
                                   orElse(field(Str_severity), Str(Str_medium)),
                                   orElse(field(Str_summary), Str(description)))]

\* analyzeBugLogic without the inner try and catch: an error of the
\* parsing reaches the outer catch
analyzeBugLogicUncaught(description, fs, reply) ==
    IF ~reply.ok THEN [threw |-> TRUE, value |-> NoAnalysis]
    ELSE structured(description, fs, reply.text)

\* analyzeBugLogic(problem, files) when queryOllama gives reply: ok with
\* the text of the model, or not ok where it throws
analyzeBugLogic(description, fs, reply) ==
    IF ~reply.ok THEN [threw |-> TRUE, value |-> NoAnalysis]
    ELSE LET inner == structured(description, fs, reply.text)
         IN IF inner.threw
            THEN [threw |-> FALSE,
                  value |-> unstructured(description, fs, reply.text)]
            ELSE inner

\* printBugAnalysis(analysis): "printed", or "TypeError" where for...of
\* meets a value that is not iterable or toUpperCase is not a function
printBugAnalysis(analysis) ==
    IF analysis.affectedCode.t \notin {"string", "array"} THEN "TypeError"
    ELSE IF analysis.severity.t # "string" THEN "TypeError"
    ELSE "printed"

\* severityEmoji[analysis.severity]: whether the look-up finds an emoji
severityEmoji(severity) ==
    severity.t = "string"
       /\ severity.s \in {Str_low, Str_medium, Str_high, Str_critical}

\* the texts the model answers with
\* The bug is in login
a_prose ==
    <<"T", "h", "e", " ", "b", "u", "g", " ", "i", "s", " ", "i", "n", " ",
      "l", "o", "g", "i", "n">>

\* (the empty text)
a_empty ==
    <<>>

\* null
a_null ==
    <<"n", "u", "l", "l">>

\* 42
a_number ==
    <<"4", "2">>

\* "done"
a_string ==
    <<"\"", "d", "o", "n", "e", "\"">>

\* ["a.ts"]
a_array ==
    <<"[", "\"", "a", ".", "t", "s", "\"", "]">>

\* {}
a_emptyObject ==
    <<"{", "}">>

\* {"bugExplanation":"e","rootCause":"c","affectedCode":["a.ts"],"severity":"high","summary":"s"}
a_full ==
    <<"{", "\"", "b", "u", "g", "E", "x", "p", "l", "a", "n", "a", "t",
      "i", "o", "n", "\"", ":", "\"", "e", "\"", ",", "\"", "r", "o", "o",
      "t", "C", "a", "u", "s", "e", "\"", ":", "\"", "c", "\"", ",", "\"",
      "a", "f", "f", "e", "c", "t", "e", "d", "C", "o", "d", "e", "\"",
      ":", "[", "\"", "a", ".", "t", "s", "\"", "]", ",", "\"", "s", "e",
      "v", "e", "r", "i", "t", "y", "\"", ":", "\"", "h", "i", "g", "h",
      "\"", ",", "\"", "s", "u", "m", "m", "a", "r", "y", "\"", ":", "\"",
      "s", "\"", "}">>

\* [fence]json\n{"bugExplanation":"e"}\n[fence]
a_fencedJson ==
    <<"^", "^", "^", "j", "s", "o", "n", "\n", "{", "\"", "b", "u", "g",
      "E", "x", "p", "l", "a", "n", "a", "t", "i", "o", "n", "\"", ":",
      "\"", "e", "\"", "}", "\n", "^", "^", "^">>

\* [fence]\n{"summary":"s"}\n[fence]
a_fenced ==
    <<"^", "^", "^", "\n", "{", "\"", "s", "u", "m", "m", "a", "r", "y",
      "\"", ":", "\"", "s", "\"", "}", "\n", "^", "^", "^">>

\* [fence]json\n{}\n[fence]\nok
a_fencedTrailing ==
    <<"^", "^", "^", "j", "s", "o", "n", "\n", "{", "}", "\n", "^", "^",
      "^", "\n", "o", "k">>

\* [fence]js\n{}\n[fence]
a_fencedOther ==
    <<"^", "^", "^", "j", "s", "\n", "{", "}", "\n", "^", "^", "^">>

\* {"severity":"urgent"}
a_urgent ==
    <<"{", "\"", "s", "e", "v", "e", "r", "i", "t", "y", "\"", ":", "\"",
      "u", "r", "g", "e", "n", "t", "\"", "}">>

\* {"severity":5}
a_numberSeverity ==
    <<"{", "\"", "s", "e", "v", "e", "r", "i", "t", "y", "\"", ":", "5", "}">>

\* {"affectedCode":3}
a_affectedNumber ==
    <<"{", "\"", "a", "f", "f", "e", "c", "t", "e", "d", "C", "o", "d",
      "e", "\"", ":", "3", "}">>

\* {"bugExplanation":"","severity":0,"summary":null,"rootCause":false}
a_falsy ==
    <<"{", "\"", "b", "u", "g", "E", "x", "p", "l", "a", "n", "a", "t",
      "i", "o", "n", "\"", ":", "\"", "\"", ",", "\"", "s", "e", "v", "e",
      "r", "i", "t", "y", "\"", ":", "0", ",", "\"", "s", "u", "m", "m",
      "a", "r", "y", "\"", ":", "n", "u", "l", "l", ",", "\"", "r", "o",
      "o", "t", "C", "a", "u", "s", "e", "\"", ":", "f", "a", "l", "s",
      "e", "}">>

\*  \t{"severity": "low"} \n
a_padded ==
    <<" ", "\t", "{", "\"", "s", "e", "v", "e", "r", "i", "t", "y", "\"",
      ":", " ", "\"", "l", "o", "w", "\"", "}", " ", "\n">>

\* {"severity":"high"
a_truncated ==
    <<"{", "\"", "s", "e", "v", "e", "r", "i", "t", "y", "\"", ":", "\"",
      "h", "i", "g", "h", "\"">>

\* {"severity":"high",}
a_trailingComma ==
    <<"{", "\"", "s", "e", "v", "e", "r", "i", "t", "y", "\"", ":", "\"",
      "h", "i", "g", "h", "\"", ",", "}">>

\* {"severity":"low","severity":"critical"}
a_twice ==
    <<"{", "\"", "s", "e", "v", "e", "r", "i", "t", "y", "\"", ":", "\"",
      "l", "o", "w", "\"", ",", "\"", "s", "e", "v", "e", "r", "i", "t",
      "y", "\"", ":", "\"", "c", "r", "i", "t", "i", "c", "a", "l", "\"",
      "}">>

\* {"affectedCode":[["a"],{"f":[]}],"severity":{"level":"high"}}
a_nested ==
    <<"{", "\"", "a", "f", "f", "e", "c", "t", "e", "d", "C", "o", "d",
      "e", "\"", ":", "[", "[", "\"", "a", "\"", "]", ",", "{", "\"", "f",
      "\"", ":", "[", "]", "}", "]", ",", "\"", "s", "e", "v", "e", "r",
      "i", "t", "y", "\"", ":", "{", "\"", "l", "e", "v", "e", "l", "\"",
      ":", "\"", "h", "i", "g", "h", "\"", "}", "}">>

\* {severity:"high"}
a_bareWord ==
    <<"{", "s", "e", "v", "e", "r", "i", "t", "y", ":", "\"", "h", "i",
      "g", "h", "\"", "}">>

\* {} {}
a_twoValues ==
    <<"{", "}", " ", "{", "}">>

\* {"severity":01}
a_leadingZero ==
    <<"{", "\"", "s", "e", "v", "e", "r", "i", "t", "y", "\"", ":", "0",
      "1", "}">>

Responses ==
    {a_prose, a_empty, a_null, a_number, a_string, a_array, a_emptyObject, a_full, a_fencedJson, a_fenced, a_fencedTrailing, a_fencedOther, a_urgent, a_numberSeverity, a_affectedNumber, a_falsy, a_padded, a_truncated, a_trailingComma, a_twice, a_nested, a_bareWord, a_twoValues, a_leadingZero}

\* the reply of queryOllama: a text, or the failure of the query
Replies ==
    {[ok |-> TRUE, text |-> r] : r \in Responses}
       \cup {[ok |-> FALSE, text |-> <<>>]}

\* the files and descriptions analyzeBugLogic is called with
AnalyzedFiles ==
    {<<>>, <<FileContent(f_Login)>>, <<FileContent(f_Login), FileContent(f_auth)>>}

AnalyzedDescriptions == {D_spec, D_short}

\* one call of analyzeBugLogic: its arguments, the reply of the model, what
\* it returned, and how the printing of the result ended
NoAnalyzer ==
    [pc |-> "idle", description |-> <<>>, files |-> <<>>,
     reply |-> [ok |-> FALSE, text |-> <<>>], analysis |-> NoAnalysis,
     print |-> "none"]

\* ------------------------------------------------------------------------
\* web/server.ts: the /api routes
\* ------------------------------------------------------------------------
\* A request carries the text of its body and a run of trailing blanks,
\* given by its length, so that a body can be longer than any text the
\* model writes out.
Request(text, padding) == [text |-> text, padding |-> padding]

\* the default limit of express.json(): '100kb'
BodyLimit == 102400

\* a response: JSON built by res.json, or the HTML page of the default
\* error handler of express; kind names the property that carries the
\* result, text holds the content a client reads back
Json(success, kind, text) ==
    [type |-> "json", status |-> 200, success |-> success, kind |-> kind,
     text |-> text]
Html(status) ==
    [type |-> "html", status |-> status, success |-> "none", kind |-> "page",
     text |-> <<>>]

\* res.json({ success: false, error: String(error) })
Failure(error) == Json("false", error, <<>>)

\* express.json() on a request with Content-Type application/json: the
\* body it hands on, or the error it passes to the error handler. A request
\* without a body keeps req.body as the version of express leaves it: {}
\* or undefined.
expressJson(req, bodyOfNone) ==
    LET first == skipSpaces(req.text, 1)
        parsed == JSONparse(req.text)
    IN IF Len(req.text) + req.padding = 0 THEN [status |-> 200, body |-> bodyOfNone]
       ELSE IF Len(req.text) + req.padding > BodyLimit
       THEN [status |-> 413, body |-> Undefined]
       ELSE IF first > Len(req.text) \/ req.text[first] \notin {"{", "["}
       THEN [status |-> 400, body |-> Undefined]
       ELSE IF ~parsed.ok THEN [status |-> 400, body |-> Undefined]
       ELSE [status |-> 200, body |-> parsed.v]

IsString(value) == value.t = "string"

\* the files the file routes are asked about, as path texts
P_a ==
    <<"/", "p", "/", "a", ".", "t", "s">>
P_ro ==
    <<"/", "p", "/", "r", "o", ".", "t", "s">>
P_secret ==
    <<"/", "p", "/", "s", "e", "c", "r", "e", "t", ".", "t", "s">>
P_new ==
    <<"/", "p", "/", "n", "e", "w", ".", "t", "s">>
P_dir ==
    <<"/", "p">>
P_orphan ==
    <<"/", "q", "/", "x", ".", "t", "s">>

\* paths that can hold a file: their directory exists
FilePaths == {P_a, P_ro, P_secret, P_new}
\* files the server process may not write, and may not read
ReadOnly == {P_ro, P_secret}
Unreadable == {P_secret}

Str_old ==
    <<"o", "l", "d">>
Str_new ==
    <<"n", "e", "w">>

Absent == [exists |-> FALSE, content |-> <<>>]
Present(content) == [exists |-> TRUE, content |-> content]

InitialFiles ==
    [p \in FilePaths |-> IF p = P_new THEN Absent ELSE Present(Str_old)]

\* fs.existsSync(filePath): false for what is no path at all
webExistsSync(fs, filePath) ==
    IsString(filePath)
       /\ \/ filePath.s = P_dir
          \/ filePath.s \in FilePaths /\ fs[filePath.s].exists

\* fs.readFileSync(filePath, 'utf-8') of an existing path
readFileSync(fs, filePath) ==
    IF filePath.s = P_dir THEN [threw |-> TRUE, error |-> "EISDIR", content |-> <<>>]
    ELSE IF filePath.s \in Unreadable
    THEN [threw |-> TRUE, error |-> "EACCES", content |-> <<>>]
    ELSE [threw |-> FALSE, error |-> "", content |-> fs[filePath.s].content]

\* fs.writeFileSync(filePath, content, 'utf-8'): the error it throws, or
\* the files after the write
writeFileSync(fs, filePath, content) ==
    IF ~IsString(filePath) \/ ~IsString(content)
    THEN [threw |-> TRUE, error |-> "TypeError", fs |-> fs]
    ELSE IF filePath.s = P_dir THEN [threw |-> TRUE, error |-> "EISDIR", fs |-> fs]
    ELSE IF filePath.s \notin FilePaths
    THEN [threw |-> TRUE, error |-> "ENOENT", fs |-> fs]
    ELSE IF filePath.s \in ReadOnly /\ fs[filePath.s].exists
    THEN [threw |-> TRUE, error |-> "EACCES", fs |-> fs]
    ELSE [threw |-> FALSE, error |-> "",
          fs |-> [fs EXCEPT ![filePath.s] = Present(content.s)]]

editKeywords ==
    {<<"a", "d", "d">>, <<"r", "e", "m", "o", "v", "e">>, <<"f", "i", "x">>,
     <<"c", "h", "a", "n", "g", "e">>, <<"u", "p", "d", "a", "t", "e">>,
     <<"m", "o", "d", "i", "f", "y">>, <<"c", "r", "e", "a", "t", "e">>,
     <<"d", "e", "l", "e", "t", "e">>, <<"r", "e", "f", "a", "c", "t", "o", "r">>,
     <<"i", "m", "p", "r", "o", "v", "e">>,
     <<"i", "m", "p", "l", "e", "m", "e", "n", "t">>,
     <<"w", "r", "i", "t", "e">>}

IsWordChar(c) ==
    \/ c \in UpperCase
    \/ c \in {LowerOf[u] : u \in UpperCase}
    \/ IsDigit(c)
    \/ c = "_"

\* the replace of the opening fence in /api/chat/edit: the fence, the word
\* after it and one line feed go
dropOpeningFenceWord(t) ==
    LET stop == least({k \in 4..(Len(t) + 1) : k > Len(t) \/ ~IsWordChar(t[k])})
    IN IF stop <= Len(t) /\ t[stop] = "\n" THEN SubSeq(t, stop + 1, Len(t))
       ELSE SubSeq(t, stop, Len(t))

\* the clean-up of the model's text in /api/chat/edit
cleanContent(newContent) ==
    LET trimmed == trim(newContent)
    IN IF startsWith(trimmed, Str_fence)
       THEN dropClosingFence(dropOpeningFenceWord(trimmed))
       ELSE trimmed

\* the route handlers: the response for a body, given how the operation
\* behind the route ends. A handler whose body is undefined throws where it
\* destructures req.body.
\* GET /api/health
apiHealth(ollamaOk) == Json("none", IF ollamaOk THEN "Connected" ELSE "Ollama not running", <<>>)

\* the handlers that await one operation and send its result: /api/scan,
\* /api/analyze/project, /api/debug, /api/concept, /api/feature
apiOperation(body, kind, returns) ==
    IF ~hasProperties(body) THEN Failure("TypeError")
    ELSE IF returns THEN Json("true", kind, <<>>)
    ELSE Failure("Error")

\* POST /api/chat
apiChat(body, reply) ==
    IF ~hasProperties(body) THEN Failure("TypeError")
    ELSE IF reply.ok THEN Json("true", "response", reply.text)
    ELSE Failure("Error")

\* POST /api/chat/edit
apiChatEdit(body, reply) ==
    IF ~hasProperties(body) THEN Failure("TypeError")
    ELSE LET prompt == getProperty(body, <<"p", "r", "o", "m", "p", "t">>)
             filePath == getProperty(body, <<"f", "i", "l", "e", "P", "a", "t", "h">>)
             content == getProperty(body, <<"c", "o", "n", "t", "e", "n", "t">>)
         IN IF ~IsString(filePath) THEN Failure("TypeError")
            ELSE IF ~IsString(prompt) THEN Failure("TypeError")
            ELSE IF \E keyword \in editKeywords : includes(toLowerCase(prompt.s), keyword)
            THEN IF reply.ok THEN Json("true", "newContent", cleanContent(reply.text))
                 ELSE Failure("Error")
            ELSE IF ~IsString(content) THEN Failure("TypeError")
            ELSE IF reply.ok THEN Json("true", "response", reply.text)
            ELSE Failure("Error")

\* POST /api/file/read
apiFileRead(body, fs) ==
    IF ~hasProperties(body) THEN Failure("TypeError")
    ELSE LET filePath == getProperty(body, <<"f", "i", "l", "e", "P", "a", "t", "h">>)
             read == readFileSync(fs, filePath)
         IN IF ~webExistsSync(fs, filePath) THEN Failure("File not found")
            ELSE IF read.threw THEN Failure(read.error)
            ELSE Json("true", "content", read.content)

\* POST /api/file/write: the response and the files after it
apiFileWrite(body, fs) ==
    IF ~hasProperties(body) THEN [response |-> Failure("TypeError"), fs |-> fs]
    ELSE LET written == writeFileSync(fs, getProperty(body, <<"f", "i", "l", "e", "P", "a", "t", "h">>),
                                      getProperty(body, <<"c", "o", "n", "t", "e", "n", "t">>))
         IN IF written.threw THEN [response |-> Failure(written.error), fs |-> fs]
            ELSE [response |-> Json("true", "File saved!", <<>>), fs |-> written.fs]

\* POST /api/file/suggest
apiFileSuggest(body, reply) ==
    IF ~hasProperties(body) THEN Failure("TypeError")
    ELSE IF ~IsString(getProperty(body, <<"f", "i", "l", "e", "P", "a", "t", "h">>)) THEN Failure("TypeError")
    ELSE IF reply.ok THEN Json("true", "suggestion", reply.text)
    ELSE Failure("Error")

\* the bodies the routes are sent
\* (no body)
q_none ==
    <<>>
q_malformed ==
    <<"{", "\"", "f", "i", "l", "e", "P", "a", "t", "h", "\"", ":">>
q_scalar ==
    <<"5">>
q_array ==
    <<"[", "]">>
q_path_a ==
    <<"{", "\"", "f", "i", "l", "e", "P", "a", "t", "h", "\"", ":", "\"",
      "/", "p", "/", "a", ".", "t", "s", "\"", "}">>
q_path_dir ==
    <<"{", "\"", "f", "i", "l", "e", "P", "a", "t", "h", "\"", ":", "\"",
      "/", "p", "\"", "}">>
q_path_new ==
    <<"{", "\"", "f", "i", "l", "e", "P", "a", "t", "h", "\"", ":", "\"",
      "/", "p", "/", "n", "e", "w", ".", "t", "s", "\"", "}">>
q_path_secret ==
    <<"{", "\"", "f", "i", "l", "e", "P", "a", "t", "h", "\"", ":", "\"",
      "/", "p", "/", "s", "e", "c", "r", "e", "t", ".", "t", "s", "\"", "}">>
q_path_number ==
    <<"{", "\"", "f", "i", "l", "e", "P", "a", "t", "h", "\"", ":", "5", "}">>
q_write_a ==
    <<"{", "\"", "f", "i", "l", "e", "P", "a", "t", "h", "\"", ":", "\"",
      "/", "p", "/", "a", ".", "t", "s", "\"", ",", "\"", "c", "o", "n",
      "t", "e", "n", "t", "\"", ":", "\"", "n", "e", "w", "\"", "}">>
q_write_new ==
    <<"{", "\"", "f", "i", "l", "e", "P", "a", "t", "h", "\"", ":", "\"",
      "/", "p", "/", "n", "e", "w", ".", "t", "s", "\"", ",", "\"", "c",
      "o", "n", "t", "e", "n", "t", "\"", ":", "\"", "n", "e", "w", "\"",
      "}">>
q_write_ro ==
    <<"{", "\"", "f", "i", "l", "e", "P", "a", "t", "h", "\"", ":", "\"",
      "/", "p", "/", "r", "o", ".", "t", "s", "\"", ",", "\"", "c", "o",
      "n", "t", "e", "n", "t", "\"", ":", "\"", "n", "e", "w", "\"", "}">>
q_write_orphan ==
    <<"{", "\"", "f", "i", "l", "e", "P", "a", "t", "h", "\"", ":", "\"",
      "/", "q", "/", "x", ".", "t", "s", "\"", ",", "\"", "c", "o", "n",
      "t", "e", "n", "t", "\"", ":", "\"", "n", "e", "w", "\"", "}">>
q_edit ==
    <<"{", "\"", "p", "r", "o", "m", "p", "t", "\"", ":", "\"", "F", "i",
      "x", " ", "i", "t", "\"", ",", "\"", "f", "i", "l", "e", "P", "a",
      "t", "h", "\"", ":", "\"", "/", "p", "/", "a", ".", "t", "s", "\"",
      ",", "\"", "c", "o", "n", "t", "e", "n", "t", "\"", ":", "\"", "o",
      "l", "d", "\"", "}">>
q_ask ==
    <<"{", "\"", "p", "r", "o", "m", "p", "t", "\"", ":", "\"", "w", "h",
      "y", "\"", ",", "\"", "f", "i", "l", "e", "P", "a", "t", "h", "\"",
      ":", "\"", "/", "p", "/", "a", ".", "t", "s", "\"", ",", "\"", "c",
      "o", "n", "t", "e", "n", "t", "\"", ":", "\"", "o", "l", "d", "\"",
      "}">>
q_edit_noPath ==
    <<"{", "\"", "p", "r", "o", "m", "p", "t", "\"", ":", "\"", "f", "i",
      "x", " ", "i", "t", "\"", ",", "\"", "c", "o", "n", "t", "e", "n",
      "t", "\"", ":", "\"", "o", "l", "d", "\"", "}">>
q_edit_number ==
    <<"{", "\"", "p", "r", "o", "m", "p", "t", "\"", ":", "5", ",", "\"",
      "f", "i", "l", "e", "P", "a", "t", "h", "\"", ":", "\"", "/", "p",
      "/", "a", ".", "t", "s", "\"", "}">>
q_ask_noContent ==
    <<"{", "\"", "p", "r", "o", "m", "p", "t", "\"", ":", "\"", "w", "h",
      "y", "\"", ",", "\"", "f", "i", "l", "e", "P", "a", "t", "h", "\"",
      ":", "\"", "/", "p", "/", "a", ".", "t", "s", "\"", "}">>
q_project ==
    <<"{", "\"", "p", "a", "t", "h", "\"", ":", "\"", "/", "p", "\"", ",",
      "\"", "p", "r", "o", "j", "e", "c", "t", "P", "a", "t", "h", "\"",
      ":", "\"", "/", "p", "\"", ",", "\"", "e", "r", "r", "o", "r", "\"",
      ":", "\"", "b", "o", "o", "m", "\"", ",", "\"", "m", "e", "s", "s",
      "a", "g", "e", "\"", ":", "\"", "h", "i", "\"", "}">>

Bodies ==
    {q_none, q_malformed, q_scalar, q_array, q_path_a, q_path_dir, q_path_new,
     q_path_secret, q_path_number, q_write_a, q_write_new, q_write_ro,
     q_write_orphan, q_edit, q_ask, q_edit_noPath, q_edit_number,
     q_ask_noContent, q_project}

\* every body, as it is and followed by blanks up to the limit
Requests ==
    {Request(q, 0) : q \in Bodies} \cup {Request(q_write_a, BodyLimit)}

Routes ==
    {"/api/health", "/api/scan", "/api/analyze/project", "/api/debug",
     "/api/concept", "/api/feature", "/api/chat", "/api/chat/edit",
     "/api/file/read", "/api/file/write", "/api/file/suggest"}

\* what the model answers an edit or a question with
t_fencedCode ==
    <<"^", "^", "^", "t", "s", "\n", "n", "e", "w", "\n", "^", "^", "^">>
ModelReplies ==
    {[ok |-> TRUE, text |-> Str_new], [ok |-> TRUE, text |-> t_fencedCode],
     [ok |-> FALSE, text |-> <<>>]}

\* the server: whether it is listening, the route and parsed body of the
\* request it is serving, the responses it sent for that request, how the
\* operation awaited by the handler ended ("returned", "threw", or "none"
\* when the handler awaited nothing), and the files on its disk
NoWeb ==
    [listening |-> FALSE, pc |-> "idle", route |-> "", request |-> Request(<<>>, 0),
     body |-> Undefined, responses |-> <<>>, operation |-> "none",
     files |-> InitialFiles]

\* ------------------------------------------------------------------------
\* public/ide.js: the browser editor
\* ------------------------------------------------------------------------
\* the projects the server can scan: the paths of their files in scan order
ProjectOne == <<"/one/a.ts", "/one/b.ts">>
ProjectTwo == <<"/two/c.ts">>
Projects == {ProjectOne, ProjectTwo}
EditorPaths == Range(ProjectOne) \cup Range(ProjectTwo)

\* currentFile = null
NoFile == ""

\* A content is known by the file it stems from and by whether the model
\* has rewritten it; '' stems from no file.
Content(of, edited) == [of |-> of, edited |-> edited]
NoContent == Content(NoFile, FALSE)

\* what /api/chat/edit returns as newContent for the content it was sent
Rewritten(content) == Content(content.of, TRUE)

\* most requests of the editor in flight at once
MaxPending == 2

\* most prompts sent in one session of the editor
MaxPrompts == 1

\* a fetch whose response has not been handled: the route, the path and
\* the content it carries
Fetch(route, path, content) == [route |-> route, path |-> path, content |-> content]

\* openFiles is an object: its keys keep the order of their first
\* assignment
isOpen(openFiles, path) == \E i \in 1..Len(openFiles) : openFiles[i].path = path

contentOf(openFiles, path) ==
    openFiles[CHOOSE i \in 1..Len(openFiles) : openFiles[i].path = path].content

\* openFiles[path] = { ...file, content, original }
setOpen(openFiles, path, content) ==
    IF isOpen(openFiles, path)
    THEN [i \in 1..Len(openFiles) |->
            IF openFiles[i].path = path THEN [path |-> path, content |-> content]
            ELSE openFiles[i]]
    ELSE Append(openFiles, [path |-> path, content |-> content])

\* delete openFiles[path]
deleteOpen(openFiles, path) ==
    LET other(e) == e.path # path
    IN SelectSeq(openFiles, other)

without(requests, i) ==
    SubSeq(requests, 1, i - 1) \o SubSeq(requests, i + 1, Len(requests))

\* switchToFile(file)
switchToFile(st, path) == [st EXCEPT !.currentFile = path]

\* closeTab(event, path)
closeTab(st, path) ==
    LET remaining == deleteOpen(st.openFiles, path)
        closed == [st EXCEPT !.openFiles = remaining]
    IN IF Len(remaining) > 0
       THEN IF remaining[1].path \in Range(st.projectFiles)
            THEN switchToFile(closed, remaining[1].path)
            ELSE closed
       ELSE [closed EXCEPT !.currentFile = NoFile]

\* saveCurrentFile() up to its fetch; no request leaves without a current
\* file that is open
saveCurrentFile(st) ==
    IF st.currentFile = NoFile \/ ~isOpen(st.openFiles, st.currentFile) THEN st
    ELSE [st EXCEPT !.requests =
             Append(@, Fetch("/api/file/write", st.currentFile,
                             contentOf(st.openFiles, st.currentFile)))]

\* the rest of sendPrompt once /api/chat/edit answered with newContent: the
\* assignment throws without a current file that is open, and the catch
\* block reports it
applyNewContent(st, newContent) ==
    IF st.currentFile = NoFile \/ ~isOpen(st.openFiles, st.currentFile) THEN st
    ELSE saveCurrentFile([st EXCEPT !.openFiles =
                             setOpen(@, st.currentFile, newContent)])

\* the editor: its four variables, the fetches in flight, the number of
\* prompts sent, and the files as the server holds them
NoIde ==
    [projectPath |-> <<>>, projectFiles |-> <<>>, openFiles |-> <<>>,
     currentFile |-> NoFile, requests |-> <<>>, prompts |-> 0,
     saved |-> [p \in EditorPaths |-> Content(p, FALSE)]]

\* ------------------------------------------------------------------------
\* The desktop shell (the main process of Electron)
\* ------------------------------------------------------------------------
Str_localhost3000 ==
    <<"l", "o", "c", "a", "l", "h", "o", "s", "t", ":", "3", "0", "0", "0">>

\* the lines web/server.ts prints once it listens, each a chunk of the
\* output of the server process
o_title ==
    <<"A", "I", " ", "A", "g", "e", "n", "t", " ", "W", "e", "b", " ", "U",
      "I">>
o_open ==
    <<"O", "p", "e", "n", ":", " ", "h", "t", "t", "p", ":", "/", "/", "l",
      "o", "c", "a", "l", "h", "o", "s", "t", ":", "3", "0", "0", "0">>
o_rule ==
    <<"=", "=", "=", "=", "=", "=", "=", "=">>

\* what the server process writes before it listens, then the banner of
\* app.listen
ServerOutput == <<o_rule, o_title, o_rule, o_open, o_rule>>

Platforms == {"win32", "linux", "darwin"}

\* whether the server answers on port 3000: it has printed the line of its
\* listen callback and is neither killed nor dead
Serving(sh) ==
    /\ sh.serverProcess = "running"
    /\ ~sh.exited
    /\ \E k \in 1..sh.printed : includes(ServerOutput[k], Str_localhost3000)

\* createWindow(): the window exists and loads the editor from the server
createWindow(sh) ==
    [sh EXCEPT !.windows = @ + 1,
               !.loaded = IF Serving(sh) THEN "served" ELSE "refused"]

\* if (serverProcess) serverProcess.kill()
killServer(sh) ==
    IF sh.serverProcess = "unset" THEN sh ELSE [sh EXCEPT !.serverProcess = "killed"]

\* the handler of before-quit, then the application quits and its windows
\* go
beforeQuit(sh) == [killServer(sh) EXCEPT !.app = "quit", !.windows = 0]

\* the handler of window-all-closed
windowAllClosed(sh) ==
    IF sh.platform # "darwin" THEN beforeQuit(killServer(sh)) ELSE killServer(sh)

\* the shell: the platform, the state of the application, the server
\* process as the shell knows it, whether that process ended by itself,
\* the chunks it has printed, the timer and the promise of startServer,
\* whether the code after the await has run, the windows, and what the
\* last window met when it loaded the editor
NoShell ==
    [platform |-> "linux", app |-> "launching", serverProcess |-> "unset",
     exited |-> FALSE, printed |-> 0, timer |-> "unset", resolved |-> FALSE,
     continued |-> FALSE, windows |-> 0, loaded |-> "none"]


\* ------------------------------------------------------------------------
\* State
\* ------------------------------------------------------------------------
VARIABLES
    disk,       \* the filesystem: which files are missing, which unreadable
    entry,      \* the entry point serving the current request, or "idle"
    pc,         \* the step of that entry point that runs next
    problem,    \* the ProblemInput of the request
    scanRoot,   \* the directory a scan-based mode was pointed at
    files,      \* the files the request selected (FileContent records)
    stage,      \* the option of findRelatedFiles that returned, 0 before
    scanned,    \* whether findRelatedFiles called scanRepository
    prompts,    \* the prompts handed to the model facade by this request
    outcome,    \* "none" while running, then "ok" or "error" (thrown)
    scans,      \* the invocations of scanRepository in progress
    dep,        \* the dependency analysis of a scan batch
    analyzer,   \* one call of analyzeBugLogic and the printing of its result
    web,        \* the web server: its files and the request it is serving
    ide,        \* the browser editor: its state and its pending requests
    shell       \* the desktop shell: server process, window, application

vars == <<disk, entry, pc, problem, scanRoot, files, stage, scanned, prompts,
          outcome, scans, dep, analyzer, web, ide, shell>>

\* the variables of the parts that take no part in the request pipeline,
\* the scan and the dependency analysis
apart == <<analyzer, web, ide, shell>>

\* the request pipeline, the scan and the dependency analysis at rest on
\* an intact disk
Quiet ==
    /\ disk = [missing |-> {}, unreadable |-> {}, lockedDirs |-> {}]
    /\ entry = "idle"
    /\ pc = "idle"
    /\ problem = NoProblem
    /\ scanRoot = <<>>
    /\ files = <<>>
    /\ stage = 0
    /\ scanned = FALSE
    /\ prompts = <<>>
    /\ outcome = "none"
    /\ scans = NoScans
    /\ dep = NoDep

\* none of those parts has started
ApartIdle ==
    /\ analyzer = NoAnalyzer
    /\ web = NoWeb
    /\ ide = NoIde
    /\ shell = NoShell

\* the variables of a request
request == <<entry, pc, problem, scanRoot, files, stage, scanned, prompts,
             outcome>>

Init ==
    /\ disk \in Disks
    /\ entry = "idle"
    /\ pc = "idle"
    /\ problem = NoProblem
    /\ scanRoot = <<>>
    /\ files = <<>>
    /\ stage = 0
    /\ scanned = FALSE
    /\ prompts = <<>>
    /\ outcome = "none"
    /\ scans = NoScans
    /\ ApartIdle
    /\ dep = NoDep

Idle == entry = "idle"

\* the caller sees the exception
Throw ==
    /\ pc' = "done"
    /\ outcome' = "error"

\* one call of the model facade with prompt p: it returns (next step) or
\* throws because the model server cannot be reached
Query(p, ok, next) ==
    /\ prompts' = Append(prompts, p)
    /\ IF ok THEN pc' = next /\ outcome' = (IF next = "done" THEN "ok" ELSE outcome)
       ELSE Throw

\* the step of an entry point that awaits findRelatedFiles(problem)
Find(p, throwsOnEmpty, next) ==
    LET r == findRelatedFiles(disk, p)
    IN /\ files' = r.files
       /\ stage' = r.stage
       /\ scanned' = r.scanned
       /\ IF throwsOnEmpty /\ Len(r.files) = 0 THEN Throw
          ELSE pc' = next /\ outcome' = outcome

\* ------------------------------------------------------------------------
\* agent/loop.ts runAgentLoop
\* ------------------------------------------------------------------------
AgentLoopHealth(healthy) ==
    /\ Idle
    /\ entry' = "runAgentLoop"
    /\ IF healthy THEN pc' = "read" /\ outcome' = outcome ELSE Throw
    /\ UNCHANGED <<apart, disk, scans, dep, problem, scanRoot, files, stage, scanned, prompts>>

AgentLoopReadProblem(p) ==
    /\ entry = "runAgentLoop" /\ pc = "read"
    /\ problem' = p
    /\ pc' = "find"
    /\ UNCHANGED <<apart, disk, scans, dep, entry, scanRoot, files, stage, scanned, prompts, outcome>>

\* the find step without the check of files.length
AgentLoopFindUnchecked ==
    /\ entry = "runAgentLoop" /\ pc = "find"
    /\ Find(problem, FALSE, "analyze")
    /\ UNCHANGED <<apart, disk, scans, dep, entry, problem, scanRoot, prompts>>

AgentLoopFind ==
    /\ entry = "runAgentLoop" /\ pc = "find"
    /\ Find(problem, TRUE, "analyze")
    /\ UNCHANGED <<apart, disk, scans, dep, entry, problem, scanRoot, prompts>>

AgentLoopAnalyze(ok) ==
    /\ entry = "runAgentLoop" /\ pc = "analyze"
    /\ Query(analyzeBugLogicPrompt(files), ok, "suggest")
    /\ UNCHANGED <<apart, disk, scans, dep, entry, problem, scanRoot, files, stage, scanned>>

AgentLoopSuggest(ok) ==
    /\ entry = "runAgentLoop" /\ pc = "suggest"
    /\ Query(suggestFixPrompt(files), ok, "done")
    /\ UNCHANGED <<apart, disk, scans, dep, entry, problem, scanRoot, files, stage, scanned>>

\* ------------------------------------------------------------------------
\* agent/loop.ts runAgentWithInput
\* ------------------------------------------------------------------------
AgentInputHealth(p, healthy) ==
    /\ Idle
    /\ entry' = "runAgentWithInput"
    /\ problem' = p
    /\ IF healthy THEN pc' = "find" /\ outcome' = outcome ELSE Throw
    /\ UNCHANGED <<apart, disk, scans, dep, scanRoot, files, stage, scanned, prompts>>

AgentInputFind ==
    /\ entry = "runAgentWithInput" /\ pc = "find"
    /\ Find(problem, FALSE, "analyze")
    /\ UNCHANGED <<apart, disk, scans, dep, entry, problem, scanRoot, prompts>>

AgentInputAnalyze(ok) ==
    /\ entry = "runAgentWithInput" /\ pc = "analyze"
    /\ Query(analyzeBugLogicPrompt(files), ok, "suggest")
    /\ UNCHANGED <<apart, disk, scans, dep, entry, problem, scanRoot, files, stage, scanned>>

AgentInputSuggest(ok) ==
    /\ entry = "runAgentWithInput" /\ pc = "suggest"
    /\ Query(suggestFixPrompt(files), ok, "done")
    /\ UNCHANGED <<apart, disk, scans, dep, entry, problem, scanRoot, files, stage, scanned>>

\* ------------------------------------------------------------------------
\* modes/debug.ts debug
\* ------------------------------------------------------------------------
DebugFind(p) ==
    /\ Idle
    /\ entry' = "debug"
    /\ problem' = p
    /\ Find(p, TRUE, "run")
    /\ UNCHANGED <<apart, disk, scans, dep, scanRoot, prompts>>

DebugRun(ok) ==
    /\ entry = "debug" /\ pc = "run"
    /\ Query(runDebugModePrompt(files), ok, "done")
    /\ UNCHANGED <<apart, disk, scans, dep, entry, problem, scanRoot, files, stage, scanned>>

\* ------------------------------------------------------------------------
\* modes/concept.ts concept and modes/feature.ts feature
\* ------------------------------------------------------------------------
\* the step shared by the scan-based modes: scanRepository, then throw when
\* nothing was scanned, else map every ScannedFile to a FileContent
ScanAll(root, throwsOnEmpty, next) ==
    LET scannedFiles == scanRepository(disk, root)
    IN /\ scanRoot' = root
       /\ files' = [i \in 1..Len(scannedFiles) |-> toFileContent(scannedFiles[i])]
       /\ IF throwsOnEmpty /\ Len(scannedFiles) = 0 THEN Throw
          ELSE pc' = next /\ outcome' = outcome

ConceptScan(root) ==
    /\ Idle
    /\ entry' = "concept"
    /\ ScanAll(root, TRUE, "run")
    /\ UNCHANGED <<apart, disk, scans, dep, problem, stage, scanned, prompts>>

ConceptRun(ok) ==
    /\ entry = "concept" /\ pc = "run"
    /\ Query(runConceptModePrompt(files), ok, "done")
    /\ UNCHANGED <<apart, disk, scans, dep, entry, problem, scanRoot, files, stage, scanned>>

FeatureScan(root) ==
    /\ Idle
    /\ entry' = "feature"
    /\ ScanAll(root, TRUE, "run")
    /\ UNCHANGED <<apart, disk, scans, dep, problem, stage, scanned, prompts>>

FeatureRun(ok) ==
    /\ entry = "feature" /\ pc = "run"
    /\ Query(runFeatureModePrompt(files), ok, "done")
    /\ UNCHANGED <<apart, disk, scans, dep, entry, problem, scanRoot, files, stage, scanned>>

\* ------------------------------------------------------------------------
\* modes/chat.ts runChatMode
\* ------------------------------------------------------------------------
ChatLoad(root) ==
    /\ Idle
    /\ entry' = "chat"
    /\ ScanAll(root, FALSE, "prompt")
    /\ UNCHANGED <<apart, disk, scans, dep, problem, stage, scanned, prompts>>

\* one line of input: a question or one of the querying commands; a failed
\* query is caught and logged, and the session asks for the next line
ChatTurn(cmd) ==
    /\ entry = "chat" /\ pc = "prompt"
    /\ Len(prompts) < MaxTurns
    /\ prompts' = Append(prompts, chatPrompt(cmd, files))
    /\ UNCHANGED <<apart, disk, scans, dep, entry, pc, problem, scanRoot, files, stage, scanned, outcome>>

\* /exit
ChatExit ==
    /\ entry = "chat" /\ pc = "prompt"
    /\ pc' = "done"
    /\ outcome' = "ok"
    /\ UNCHANGED <<apart, disk, scans, dep, entry, problem, scanRoot, files, stage, scanned, prompts>>

\* ------------------------------------------------------------------------
\* agent/bugAnalyzer.ts runBugAnalysis (the "analyze" CLI, analyze.ts)
\* ------------------------------------------------------------------------
BugAnalysisSelect(errorLog, filePaths) ==
    /\ Idle
    /\ entry' = "runBugAnalysis"
    /\ problem' = [NoProblem EXCEPT !.errorLog = errorLog, !.filePaths = filePaths,
                                    !.basePath = Cwd]
    /\ LET selected == IF Len(filePaths) > 0 THEN loadFiles(disk, filePaths)
                       ELSE selectRelevantFiles(disk, errorLog)
       IN /\ files' = [i \in 1..Len(selected) |->
                         [path |-> selected[i].path, content |-> selected[i].content,
                          extension |-> extname(selected[i].path)]]
          /\ IF Len(selected) = 0 THEN Throw
             ELSE pc' = "query" /\ outcome' = outcome
    /\ UNCHANGED <<apart, disk, scans, dep, scanRoot, stage, scanned, prompts>>

BugAnalysisQuery(ok) ==
    /\ entry = "runBugAnalysis" /\ pc = "query"
    /\ Query(analyzeBugPrompt(files), ok, "done")
    /\ UNCHANGED <<apart, disk, scans, dep, entry, problem, scanRoot, files, stage, scanned>>

\* ------------------------------------------------------------------------
\* The request is over; the next one starts from a fresh call
\* ------------------------------------------------------------------------
Return ==
    /\ pc = "done"
    /\ entry' = "idle"
    /\ pc' = "idle"
    /\ problem' = NoProblem
    /\ scanRoot' = <<>>
    /\ files' = <<>>
    /\ stage' = 0
    /\ scanned' = FALSE
    /\ prompts' = <<>>
    /\ outcome' = "none"
    /\ UNCHANGED <<apart, disk, scans, dep>>

Next ==
    \/ \E healthy \in BOOLEAN : AgentLoopHealth(healthy)
    \/ \E p \in ProblemInputs : AgentLoopReadProblem(p)
    \/ AgentLoopFind
    \/ \E ok \in BOOLEAN : AgentLoopAnalyze(ok)
    \/ \E ok \in BOOLEAN : AgentLoopSuggest(ok)
    \/ \E p \in ProblemInputs, healthy \in BOOLEAN : AgentInputHealth(p, healthy)
    \/ AgentInputFind
    \/ \E ok \in BOOLEAN : AgentInputAnalyze(ok)
    \/ \E ok \in BOOLEAN : AgentInputSuggest(ok)
    \/ \E p \in ProblemInputs : DebugFind(p)
    \/ \E ok \in BOOLEAN : DebugRun(ok)
    \/ \E root \in BasePaths : ConceptScan(root)
    \/ \E ok \in BOOLEAN : ConceptRun(ok)
    \/ \E root \in BasePaths : FeatureScan(root)
    \/ \E ok \in BOOLEAN : FeatureRun(ok)
    \/ \E root \in BasePaths : ChatLoad(root)
    \/ \E cmd \in ChatCommands : ChatTurn(cmd)
    \/ ChatExit
    \/ \E l \in BugLogs, fp \in ExplicitLists \cup {<<>>} : BugAnalysisSelect(l, fp)
    \/ \E ok \in BOOLEAN : BugAnalysisQuery(ok)
    \/ Return

Spec == Init /\ [][Next]_vars

\* ------------------------------------------------------------------------
\* repo/scan.ts scanRepository, one await at a time
\* ------------------------------------------------------------------------
\* A frame is one activation of walkDirectory: its directory, whether its
\* readdir has resolved, and the entries its loop has not reached yet.
WalkFrame(dirPath) == [dir |-> dirPath, listed |-> FALSE, entries |-> <<>>]

\* activations whose loop has ended return to their caller
RECURSIVE popFinished(_)
popFinished(stack) ==
    IF Len(stack) = 0 THEN stack
    ELSE LET top == stack[Len(stack)]
         IN IF top.listed /\ Len(top.entries) = 0
            THEN popFinished(SubSeq(stack, 1, Len(stack) - 1))
            ELSE stack

replaceTop(stack, frame) == Append(SubSeq(stack, 1, Len(stack) - 1), frame)

\* every invocation pushing onto one module-level array, that of the
\* first invocation
pushScannedShared(sc, id, record) ==
    [sc EXCEPT ![1].out = Append(@, record)]

\* files.push(...) of invocation id
pushScanned(sc, id, record) ==
    [sc EXCEPT ![id].out = Append(@, record)]

\* the await of readdir resolves: the loop starts, or the error is caught
\* and the activation returns
walkReaddir(d, sc, id) ==
    LET inv == sc[id]
        top == inv.stack[Len(inv.stack)]
        failed == top.dir \notin Directories \/ top.dir \in d.lockedDirs
        after == IF failed THEN SubSeq(inv.stack, 1, Len(inv.stack) - 1)
                 ELSE replaceTop(inv.stack,
                                 [top EXCEPT !.listed = TRUE,
                                             !.entries = readdir(d, top.dir)])
    IN [sc EXCEPT ![id].stack = popFinished(after)]

\* the loop turn comparing the extension as it is spelled
walkEntryStepCaseSensitive(d, sc, id) ==
    LET inv == sc[id]
        top == inv.stack[Len(inv.stack)]
        e == Head(top.entries)
        rest == replaceTop(inv.stack, [top EXCEPT !.entries = Tail(@)])
        fullPath == AbsPath(top.dir, e.fname)
        ext == extname(fullPath)
    IN IF e.kind = "dir"
       THEN IF e.dname \notin IGNORED_DIRS
            THEN [sc EXCEPT ![id].stack = Append(rest, WalkFrame(Append(top.dir, e.dname)))]
            ELSE [sc EXCEPT ![id].stack = popFinished(rest)]
       ELSE IF e.kind = "file" /\ ext \in SUPPORTED_EXTENSIONS
       THEN IF Readable(d, fullPath)
            THEN pushScanned([sc EXCEPT ![id].stack = popFinished(rest)], id,
                             ScannedFile(fullPath, d))
            ELSE [sc EXCEPT ![id].stack = popFinished(rest)]
       ELSE [sc EXCEPT ![id].stack = popFinished(rest)]

\* the loop turn testing the ignore list in the root directory only
walkEntryStepIgnoreAtRoot(d, sc, id) ==
    LET inv == sc[id]
        top == inv.stack[Len(inv.stack)]
        e == Head(top.entries)
        rest == replaceTop(inv.stack, [top EXCEPT !.entries = Tail(@)])
        fullPath == AbsPath(top.dir, e.fname)
        ext == toLowerCase(extname(fullPath))
    IN IF e.kind = "dir"
       THEN IF ~(Len(inv.stack) = 1 /\ e.dname \in IGNORED_DIRS)
            THEN [sc EXCEPT ![id].stack = Append(rest, WalkFrame(Append(top.dir, e.dname)))]
            ELSE [sc EXCEPT ![id].stack = popFinished(rest)]
       ELSE IF e.kind = "file" /\ ext \in SUPPORTED_EXTENSIONS
       THEN IF Readable(d, fullPath)
            THEN pushScanned([sc EXCEPT ![id].stack = popFinished(rest)], id,
                             ScannedFile(fullPath, d))
            ELSE [sc EXCEPT ![id].stack = popFinished(rest)]
       ELSE [sc EXCEPT ![id].stack = popFinished(rest)]

\* the loop turn that ends the whole walk when a file cannot be read
walkEntryStepAborting(d, sc, id) ==
    LET inv == sc[id]
        top == inv.stack[Len(inv.stack)]
        e == Head(top.entries)
        rest == replaceTop(inv.stack, [top EXCEPT !.entries = Tail(@)])
        fullPath == AbsPath(top.dir, e.fname)
        ext == toLowerCase(extname(fullPath))
    IN IF e.kind = "dir"
       THEN IF e.dname \notin IGNORED_DIRS
            THEN [sc EXCEPT ![id].stack = Append(rest, WalkFrame(Append(top.dir, e.dname)))]
            ELSE [sc EXCEPT ![id].stack = popFinished(rest)]
       ELSE IF e.kind = "file" /\ ext \in SUPPORTED_EXTENSIONS
       THEN IF Readable(d, fullPath)
            THEN pushScanned([sc EXCEPT ![id].stack = popFinished(rest)], id,
                             ScannedFile(fullPath, d))
            ELSE [sc EXCEPT ![id].stack = <<>>]
       ELSE [sc EXCEPT ![id].stack = popFinished(rest)]

\* one turn of the loop over the entries: a directory that is not ignored
\* starts a nested activation, a file with a supported extension is read
\* and pushed, or skipped when the read throws
walkEntryStep(d, sc, id) ==
    LET inv == sc[id]
        top == inv.stack[Len(inv.stack)]
        e == Head(top.entries)
        rest == replaceTop(inv.stack, [top EXCEPT !.entries = Tail(@)])
        fullPath == AbsPath(top.dir, e.fname)
        ext == toLowerCase(extname(fullPath))
    IN IF e.kind = "dir"
       THEN IF e.dname \notin IGNORED_DIRS
            THEN [sc EXCEPT ![id].stack = Append(rest, WalkFrame(Append(top.dir, e.dname)))]
            ELSE [sc EXCEPT ![id].stack = popFinished(rest)]
       ELSE IF e.kind = "file" /\ ext \in SUPPORTED_EXTENSIONS
       THEN IF Readable(d, fullPath)
            THEN pushScanned([sc EXCEPT ![id].stack = popFinished(rest)], id,
                             ScannedFile(fullPath, d))
            ELSE [sc EXCEPT ![id].stack = popFinished(rest)]
       ELSE [sc EXCEPT ![id].stack = popFinished(rest)]

\* the directories scanRepository is pointed at
ScanRoots == {RepoDir, DistsDir, DistDir, NowhereDir}

ScanInit ==
    /\ disk \in RepoDisks
    /\ entry = "idle"
    /\ pc = "idle"
    /\ problem = NoProblem
    /\ scanRoot = <<>>
    /\ files = <<>>
    /\ stage = 0
    /\ scanned = FALSE
    /\ prompts = <<>>
    /\ outcome = "none"
    /\ scans = NoScans
    /\ ApartIdle
    /\ dep = NoDep

\* scanRepository(rootPath) is called: a fresh files array, and
\* walkDirectory awaits its first readdir
ScanCall(id, rootPath) ==
    /\ scans[id].pc = "idle"
    /\ scans' = [scans EXCEPT ![id] = [pc |-> "walking", root |-> rootPath,
                                       stack |-> <<WalkFrame(rootPath)>>,
                                       out |-> <<>>]]
    /\ UNCHANGED <<apart, disk, dep, request>>

ScanReaddir(id) ==
    /\ scans[id].pc = "walking"
    /\ Len(scans[id].stack) > 0
    /\ ~scans[id].stack[Len(scans[id].stack)].listed
    /\ scans' = walkReaddir(disk, scans, id)
    /\ UNCHANGED <<apart, disk, dep, request>>

ScanEntry(id) ==
    /\ scans[id].pc = "walking"
    /\ Len(scans[id].stack) > 0
    /\ scans[id].stack[Len(scans[id].stack)].listed
    /\ scans' = walkEntryStep(disk, scans, id)
    /\ UNCHANGED <<apart, disk, dep, request>>

\* the outermost walkDirectory has returned: scanRepository returns files
ScanReturn(id) ==
    /\ scans[id].pc = "walking"
    /\ Len(scans[id].stack) = 0
    /\ scans' = [scans EXCEPT ![id].pc = "done"]
    /\ UNCHANGED <<apart, disk, dep, request>>

\* both results were consumed; later calls start afresh
ScanForget ==
    /\ \A id \in Invocations : scans[id].pc = "done"
    /\ scans' = NoScans
    /\ UNCHANGED <<apart, disk, dep, request>>

ScanNext ==
    \/ \E id \in Invocations, rootPath \in ScanRoots : ScanCall(id, rootPath)
    \/ \E id \in Invocations : ScanReaddir(id)
    \/ \E id \in Invocations : ScanEntry(id)
    \/ \E id \in Invocations : ScanReturn(id)
    \/ ScanForget

ScanSpec == ScanInit /\ [][ScanNext]_vars

\* ------------------------------------------------------------------------
\* repo/dependency.ts on one scan batch
\* ------------------------------------------------------------------------
DepInit ==
    /\ disk = [missing |-> {}, unreadable |-> {}, lockedDirs |-> {}]
    /\ entry = "idle"
    /\ pc = "idle"
    /\ problem = NoProblem
    /\ scanRoot = <<>>
    /\ files = <<>>
    /\ stage = 0
    /\ scanned = FALSE
    /\ prompts = <<>>
    /\ outcome = "none"
    /\ scans = NoScans
    /\ ApartIdle
    /\ \E b \in Batches : dep = [NoDep EXCEPT !.batch = b]

DepBuild ==
    /\ dep.pc = "idle"
    /\ dep' = [dep EXCEPT !.pc = "mapped", !.map = buildDependencyMap(dep.batch)]
    /\ UNCHANGED <<apart, disk, scans, request>>

\* each of the three exported functions is called once per batch
DepAnalyze(i) ==
    /\ dep.analysed = 0
    /\ i \in 1..Len(dep.batch)
    /\ dep' = [dep EXCEPT !.analysed = i,
                          !.detail = analyzeFileDependencies(dep.batch[i], dep.batch)]
    /\ UNCHANGED <<apart, disk, scans, request>>

DepFindDependents(targetFile) ==
    /\ dep.pc = "mapped"
    /\ dep' = [dep EXCEPT !.pc = "queried", !.target = targetFile,
                          !.dependents = findDependents(targetFile, dep.map)]
    /\ UNCHANGED <<apart, disk, scans, request>>

DepNext ==
    \/ DepBuild
    \/ \E i \in 1..MaxBatch : DepAnalyze(i)
    \/ \E t \in Targets : DepFindDependents(t)

DepSpec == DepInit /\ [][DepNext]_vars

\* ------------------------------------------------------------------------
\* agent/analyzer.ts: one call of analyzeBugLogic, then printBugAnalysis as
\* runAgentLoop and runAgentWithInput call it
\* ------------------------------------------------------------------------
AnalyzerInit ==
    /\ Quiet
    /\ web = NoWeb
    /\ ide = NoIde
    /\ shell = NoShell
    /\ \E d \in AnalyzedDescriptions, fs \in AnalyzedFiles :
          analyzer = [NoAnalyzer EXCEPT !.description = d, !.files = fs]

AnalyzeBugLogic(reply) ==
    /\ analyzer.pc = "idle"
    /\ LET r == analyzeBugLogic(analyzer.description, analyzer.files, reply)
       IN analyzer' = [analyzer EXCEPT !.pc = IF r.threw THEN "thrown" ELSE "returned",
                                       !.reply = reply,
                                       !.analysis = r.value]
    /\ UNCHANGED <<disk, request, scans, dep, web, ide, shell>>

PrintBugAnalysis ==
    /\ analyzer.pc = "returned"
    /\ analyzer' = [analyzer EXCEPT !.pc = "printed",
                                    !.print = printBugAnalysis(analyzer.analysis)]
    /\ UNCHANGED <<disk, request, scans, dep, web, ide, shell>>

AnalyzerNext ==
    \/ \E reply \in Replies : AnalyzeBugLogic(reply)
    \/ PrintBugAnalysis

AnalyzerSpec == AnalyzerInit /\ [][AnalyzerNext]_vars

\* ------------------------------------------------------------------------
\* web/server.ts: the server takes one request at a time through the
\* middleware and the handler of its route
\* ------------------------------------------------------------------------
WebInit ==
    /\ Quiet
    /\ analyzer = NoAnalyzer
    /\ web = NoWeb
    /\ ide = NoIde
    /\ shell = NoShell

notWeb == <<disk, request, scans, dep, analyzer, ide, shell>>

\* app.listen(PORT)
WebListen ==
    /\ ~web.listening
    /\ web' = [web EXCEPT !.listening = TRUE]
    /\ UNCHANGED notWeb

\* a request arrives and passes express.json(); an error of the middleware
\* goes to the default error handler, which sends its page
WebReceive(route, req, bodyOfNone) ==
    /\ web.listening /\ web.pc = "idle"
    /\ route = "/api/health" => req = Request(q_none, 0)
    /\ LET r == expressJson(req, bodyOfNone)
       IN web' = [web EXCEPT !.route = route, !.request = req, !.body = r.body,
                             !.operation = "none",
                             !.pc = IF r.status = 200 THEN "routed" ELSE "responded",
                             !.responses = IF r.status = 200 THEN <<>>
                                           ELSE <<Html(r.status)>>]
    /\ UNCHANGED notWeb

Routed(route) == web.pc = "routed" /\ web.route = route

Respond(response, operation) ==
    web' = [web EXCEPT !.pc = "responded", !.operation = operation,
                       !.responses = Append(@, response)]

Ended(ok) == IF ok THEN "returned" ELSE "threw"

ApiHealth(ollamaOk) ==
    /\ Routed("/api/health")
    /\ Respond(apiHealth(ollamaOk), "returned")
    /\ UNCHANGED notWeb

ApiScan(returns) ==
    /\ Routed("/api/scan")
    /\ Respond(apiOperation(web.body, "files", returns), Ended(returns))
    /\ UNCHANGED notWeb

ApiAnalyzeProject(returns) ==
    /\ Routed("/api/analyze/project")
    /\ Respond(apiOperation(web.body, "result", returns), Ended(returns))
    /\ UNCHANGED notWeb

ApiDebug(returns) ==
    /\ Routed("/api/debug")
    /\ Respond(apiOperation(web.body, "result", returns), Ended(returns))
    /\ UNCHANGED notWeb

ApiConcept(returns) ==
    /\ Routed("/api/concept")
    /\ Respond(apiOperation(web.body, "result", returns), Ended(returns))
    /\ UNCHANGED notWeb

ApiFeature(returns) ==
    /\ Routed("/api/feature")
    /\ Respond(apiOperation(web.body, "result", returns), Ended(returns))
    /\ UNCHANGED notWeb

ApiChat(reply) ==
    /\ Routed("/api/chat")
    /\ Respond(apiChat(web.body, reply), Ended(reply.ok))
    /\ UNCHANGED notWeb

ApiChatEdit(reply) ==
    /\ Routed("/api/chat/edit")
    /\ Respond(apiChatEdit(web.body, reply), Ended(reply.ok))
    /\ UNCHANGED notWeb

ApiFileRead ==
    /\ Routed("/api/file/read")
    /\ Respond(apiFileRead(web.body, web.files), "none")
    /\ UNCHANGED notWeb

ApiFileWrite ==
    /\ Routed("/api/file/write")
    /\ LET r == apiFileWrite(web.body, web.files)
       IN web' = [web EXCEPT !.pc = "responded", !.operation = "none",
                             !.responses = Append(@, r.response),
                             !.files = r.fs]
    /\ UNCHANGED notWeb

ApiFileSuggest(reply) ==
    /\ Routed("/api/file/suggest")
    /\ Respond(apiFileSuggest(web.body, reply), Ended(reply.ok))
    /\ UNCHANGED notWeb

\* the response is on its way; the server waits for the next request
WebDone ==
    /\ web.pc = "responded"
    /\ web' = [web EXCEPT !.pc = "idle", !.route = "", !.request = Request(<<>>, 0),
                          !.body = Undefined, !.responses = <<>>,
                          !.operation = "none"]
    /\ UNCHANGED notWeb

WebNext ==
    \/ WebListen
    \/ \E route \in Routes, req \in Requests, bodyOfNone \in {Obj(<<>>), Undefined} :
          WebReceive(route, req, bodyOfNone)
    \/ \E ollamaOk \in BOOLEAN : ApiHealth(ollamaOk)
    \/ \E returns \in BOOLEAN : ApiScan(returns)
    \/ \E returns \in BOOLEAN : ApiAnalyzeProject(returns)
    \/ \E returns \in BOOLEAN : ApiDebug(returns)
    \/ \E returns \in BOOLEAN : ApiConcept(returns)
    \/ \E returns \in BOOLEAN : ApiFeature(returns)
    \/ \E reply \in ModelReplies : ApiChat(reply)
    \/ \E reply \in ModelReplies : ApiChatEdit(reply)
    \/ ApiFileRead
    \/ ApiFileWrite
    \/ \E reply \in ModelReplies : ApiFileSuggest(reply)
    \/ WebDone

WebSpec == WebInit /\ [][WebNext]_vars

\* ------------------------------------------------------------------------
\* public/ide.js: the handlers of the editor, one await at a time
\* ------------------------------------------------------------------------
IdeInit ==
    /\ Quiet
    /\ analyzer = NoAnalyzer
    /\ web = NoWeb
    /\ ide = NoIde
    /\ shell = NoShell

notIde == <<disk, request, scans, dep, analyzer, web, shell>>

CanFetch == Len(ide.requests) < MaxPending

\* loadProject() up to its fetch
IdeLoadProject(project) ==
    /\ CanFetch
    /\ ide' = [ide EXCEPT !.projectPath = project,
                          !.requests = Append(@, Fetch("/api/scan", project, NoContent))]
    /\ UNCHANGED notIde

\* /api/scan answers
IdeScanResponse(i, ok) ==
    /\ i \in 1..Len(ide.requests) /\ ide.requests[i].route = "/api/scan"
    /\ ide' = [ide EXCEPT !.requests = without(@, i),
                          !.projectFiles = IF ok THEN ide.requests[i].path ELSE @]
    /\ UNCHANGED notIde

\* openFile(index) up to its fetch, or to its end for a file that is open
IdeOpenFile(index) ==
    /\ index \in 1..Len(ide.projectFiles)
    /\ LET path == ide.projectFiles[index]
       IN IF isOpen(ide.openFiles, path) THEN ide' = switchToFile(ide, path)
          ELSE /\ CanFetch
               /\ ide' = [ide EXCEPT !.requests =
                             Append(@, Fetch("/api/file/read", path, NoContent))]
    /\ UNCHANGED notIde

\* /api/file/read answers
IdeReadResponse(i, ok) ==
    /\ i \in 1..Len(ide.requests) /\ ide.requests[i].route = "/api/file/read"
    /\ LET path == ide.requests[i].path
           rest == [ide EXCEPT !.requests = without(@, i)]
       IN ide' = IF ok
                 THEN switchToFile([rest EXCEPT !.openFiles =
                                       setOpen(@, path, ide.saved[path])], path)
                 ELSE rest
    /\ UNCHANGED notIde

\* a click on the tab of an open file
IdeSwitchToFile(path) ==
    /\ isOpen(ide.openFiles, path)
    /\ ide' = switchToFile(ide, path)
    /\ UNCHANGED notIde

\* a click on the cross of the tab of an open file
IdeCloseTab(path) ==
    /\ isOpen(ide.openFiles, path)
    /\ ide' = closeTab(ide, path)
    /\ UNCHANGED notIde

\* sendPrompt() with a prompt that asks for an edit, up to its fetch
IdeSendPrompt ==
    /\ ide.currentFile # NoFile
    /\ CanFetch
    /\ ide.prompts < MaxPrompts
    /\ LET currentContent == IF isOpen(ide.openFiles, ide.currentFile)
                             THEN contentOf(ide.openFiles, ide.currentFile)
                             ELSE NoContent
       IN ide' = [ide EXCEPT !.prompts = @ + 1,
                             !.requests =
                     Append(@, Fetch("/api/chat/edit", ide.currentFile, currentContent))]
    /\ UNCHANGED notIde

\* /api/chat/edit answers: with newContent, with a plain response, or with
\* an error
IdeEditResponse(i, answer) ==
    /\ i \in 1..Len(ide.requests) /\ ide.requests[i].route = "/api/chat/edit"
    /\ LET rest == [ide EXCEPT !.requests = without(@, i)]
       IN ide' = IF answer = "newContent"
                 THEN applyNewContent(rest, Rewritten(ide.requests[i].content))
                 ELSE rest
    /\ UNCHANGED notIde

\* /api/file/write runs on the server and answers
IdeWriteResponse(i, ok) ==
    /\ i \in 1..Len(ide.requests) /\ ide.requests[i].route = "/api/file/write"
    /\ ide' = [ide EXCEPT !.requests = without(@, i),
                          !.saved = IF ok THEN [@ EXCEPT ![ide.requests[i].path] =
                                                   ide.requests[i].content]
                                    ELSE @]
    /\ UNCHANGED notIde

IdeNext ==
    \/ \E project \in Projects : IdeLoadProject(project)
    \/ \E i \in 1..MaxPending, ok \in BOOLEAN : IdeScanResponse(i, ok)
    \/ \E index \in 1..2 : IdeOpenFile(index)
    \/ \E i \in 1..MaxPending, ok \in BOOLEAN : IdeReadResponse(i, ok)
    \/ \E path \in EditorPaths : IdeSwitchToFile(path)
    \/ \E path \in EditorPaths : IdeCloseTab(path)
    \/ IdeSendPrompt
    \/ \E i \in 1..MaxPending, answer \in {"newContent", "response", "error"} :
          IdeEditResponse(i, answer)
    \/ \E i \in 1..MaxPending, ok \in BOOLEAN : IdeWriteResponse(i, ok)

IdeSpec == IdeInit /\ [][IdeNext]_vars

\* ------------------------------------------------------------------------
\* The desktop shell: the events of the application and of the server
\* process
\* ------------------------------------------------------------------------
ShellInit ==
    /\ Quiet
    /\ analyzer = NoAnalyzer
    /\ web = NoWeb
    /\ ide = NoIde
    /\ \E platform \in Platforms : shell = [NoShell EXCEPT !.platform = platform]

notShell == <<disk, request, scans, dep, analyzer, web, ide>>

\* app.whenReady() resolves: startServer() spawns the server and arms the
\* timer of three seconds
ShellWhenReady ==
    /\ shell.app = "launching"
    /\ shell' = [shell EXCEPT !.app = "ready", !.serverProcess = "running",
                              !.timer = "armed"]
    /\ UNCHANGED notShell

\* the server process writes its next chunk; the handler of stdout
\* resolves the promise when the chunk holds localhost:3000
ServerPrints ==
    /\ shell.app = "ready"
    /\ shell.serverProcess = "running" /\ ~shell.exited
    /\ shell.printed < Len(ServerOutput)
    /\ shell' = [shell EXCEPT !.printed = @ + 1,
                              !.resolved = @ \/ includes(ServerOutput[shell.printed + 1],
                                                         Str_localhost3000)]
    /\ UNCHANGED notShell

\* the server process ends by itself before it listens (the port is taken,
\* the source does not compile)
ServerExits ==
    /\ shell.app = "ready"
    /\ shell.serverProcess = "running" /\ ~shell.exited
    /\ ~Serving(shell)
    /\ shell' = [shell EXCEPT !.exited = TRUE]
    /\ UNCHANGED notShell

\* setTimeout(resolve, 3000) fires
ShellTimeout ==
    /\ shell.app = "ready"
    /\ shell.timer = "armed"
    /\ shell' = [shell EXCEPT !.timer = "fired", !.resolved = TRUE]
    /\ UNCHANGED notShell

\* the code after await startServer(): createWindow() and the handler of
\* activate
ShellContinue ==
    /\ shell.app = "ready"
    /\ shell.resolved /\ ~shell.continued
    /\ shell' = [createWindow(shell) EXCEPT !.continued = TRUE]
    /\ UNCHANGED notShell

\* the user closes the window: it is the last one, window-all-closed
ShellCloseWindow ==
    /\ shell.app = "ready"
    /\ shell.windows > 0
    /\ shell' = windowAllClosed([shell EXCEPT !.windows = 0])
    /\ UNCHANGED notShell

\* activate (the dock icon is clicked)
ShellActivate ==
    /\ shell.app = "ready"
    /\ shell.platform = "darwin"
    /\ shell.continued
    /\ shell.windows = 0
    /\ shell' = createWindow(shell)
    /\ UNCHANGED notShell

\* the user quits the application: before-quit
ShellQuit ==
    /\ shell.app \in {"launching", "ready"}
    /\ shell' = beforeQuit(shell)
    /\ UNCHANGED notShell

ShellNext ==
    \/ ShellWhenReady
    \/ ServerPrints
    \/ ServerExits
    \/ ShellTimeout
    \/ ShellContinue
    \/ ShellCloseWindow
    \/ ShellActivate
    \/ ShellQuit

ShellSpec == ShellInit /\ [][ShellNext]_vars

\* ------------------------------------------------------------------------
\* Vocabulary of the properties
\* ------------------------------------------------------------------------
\* findRelatedFiles has returned for the current request
Found == stage # 0

PathsOf(fs) == [i \in 1..Len(fs) |-> fs[i].path]

\* the path a caller-supplied string denotes
Resolved(filePath) ==
    IF filePath.abs THEN filePath
    ELSE [abs |-> TRUE, dir |-> problem.basePath \o filePath.dir,
          file |-> filePath.file]

ResolvedAll(paths) == [i \in 1..Len(paths) |-> Resolved(paths[i])]

\* a file that is on the disk and can be read
Loadable(p) == p \in AllFiles /\ p \notin disk.missing /\ p \notin disk.unreadable

OnDisk(p) == p \in AllFiles /\ p \notin disk.missing

\* the explicit paths that denote a loadable file, in input order
LoadablePaths(paths) ==
    LET r == ResolvedAll(paths)
    IN SelectSeq(r, Loadable)

\* the scan of the request's base path
TheScan == scanRepository(disk, problem.basePath)

\* the words of the lower-cased description: the maximal runs without
\* whitespace, as pairs of first and last position; keywords are the runs
\* of more than 3 characters
LowDescription == <<>> \o [i \in 1..Len(problem.description) |->
                               LowerChar(problem.description[i])]

KeywordRuns ==
    LET d == LowDescription
        starts == {a \in 1..Len(d) : ~IsSpace(d[a]) /\ (a = 1 \/ IsSpace(d[a - 1]))}
        endOf(a) == CHOOSE b \in a..Len(d) :
                        /\ \A k \in a..b : ~IsSpace(d[k])
                        /\ (b = Len(d) \/ IsSpace(d[b + 1]))
    IN {r \in {<<a, endOf(a)>> : a \in starts} : r[2] - r[1] + 1 > 3}

Occurs(word, text) ==
    LET low == <<>> \o [k \in 1..Len(text) |-> LowerChar(text[k])]
    IN \E i \in 1..Len(text) :
        /\ i + Len(word) - 1 <= Len(text)
        /\ SubSeq(low, i, i + Len(word) - 1) = word

\* per scanned file, in scan order: 1 per keyword occurring in the content
\* plus 2 per keyword occurring in the filename
ClaimedScores ==
    LET d == LowDescription
        runs == KeywordRuns
        scan == TheScan
        word(r) == SubSeq(d, r[1], r[2])
        row(i) == [path |-> scan[i].path,
                   score |-> Cardinality({r \in runs : Occurs(word(r), scan[i].content)})
                             + 2 * Cardinality({r \in runs : Occurs(word(r), scan[i].file)})]
    IN <<>> \o [i \in 1..Len(scan) |-> row(i)]

\* position in a score table of a path, 0 when it was not scanned
IndexIn(table, p) ==
    IF \E i \in 1..Len(table) : table[i].path = p
    THEN CHOOSE i \in 1..Len(table) : table[i].path = p
    ELSE 0

CascadeEntries == {"runAgentLoop", "runAgentWithInput", "debug"}

\* the unique paths the stack-trace patterns extract from the error log
Extracted == extractFilesFromError(problem.errorLog)

\* ------------------------------------------------------------------------
\* C1: the sequence findRelatedFiles returns has at most 5 entries, for
\* every ProblemInput and whichever option produced it.
\* ------------------------------------------------------------------------
C1_AtMostFive == Found => Len(files) <= 5

\* more than 5 loadable explicit paths were supplied and 5 were returned
C1_Witness ==
    /\ Found /\ stage = 1
    /\ Len(LoadablePaths(problem.filePaths)) > 5
    /\ Len(files) = 5

\* ------------------------------------------------------------------------
\* C2: no prompt handed to the model facade embeds the content of more
\* than 5 files, in any mode.
\* ------------------------------------------------------------------------
C2_PromptsEmbedAtMostFive ==
    \A i \in 1..Len(prompts) : Len(prompts[i].embedded) <= 5

\* ------------------------------------------------------------------------
\* C3: when the cascade ends with zero files, the entry point that
\* consumes it issues no model query and ends by reporting a failure.
\* ------------------------------------------------------------------------
C3_EmptyCascadeFails ==
    (entry \in CascadeEntries /\ Found /\ Len(files) = 0)
        => (prompts = <<>> /\ (pc = "done" => outcome = "error"))

\* ------------------------------------------------------------------------
\* C4: if the stack-trace option loads at least one file, the result is
\* exactly the files it loaded, in its order, and the project is not
\* scanned, whatever the description's keywords match.
\* ------------------------------------------------------------------------
C4_StackTraceReturns ==
    (Found /\ Len(problem.filePaths) = 0
           /\ Len(LoadablePaths(Slice(Extracted, 5))) > 0)
        => /\ stage = 2
           /\ ~scanned
           /\ PathsOf(files) = LoadablePaths(Slice(Extracted, 5))

\* the stack-trace option returned while a keyword of the description
\* matches a scanned file that is not in the result
C4_Witness ==
    /\ Found /\ stage = 2 /\ Len(files) > 0
    /\ LET t == ClaimedScores
       IN \E i \in 1..Len(t) :
            t[i].score > 0 /\ t[i].path \notin Range(PathsOf(files))

\* ------------------------------------------------------------------------
\* C5: with no explicit paths, whenever the error log holds a path that
\* matches the patterns and resolves to an existing file, the result comes
\* from the stack-trace option, however many other matches the log holds.
\* (Stated on disks where every existing file can be read.)
\* ------------------------------------------------------------------------
C5_ExistingTracePathWins ==
    (Found /\ Len(problem.filePaths) = 0 /\ disk.unreadable = {}
           /\ \E i \in 1..Len(Extracted) : OnDisk(Resolved(Extracted[i])))
        => stage = 2

\* ------------------------------------------------------------------------
\* C6: explicit paths that all exist are returned exactly, resolved
\* against the base path, in input order, cut to the first 5.
\* ------------------------------------------------------------------------
\* as claimed: every path exists on disk
C6_AllExistingReturned ==
    (Found /\ Len(problem.filePaths) > 0
           /\ \A i \in 1..Len(problem.filePaths) :
                 OnDisk(Resolved(problem.filePaths[i])))
        => PathsOf(files) = Slice(ResolvedAll(problem.filePaths), 5)

\* amended: every path exists on disk and can be read
C6_AllReadableReturned ==
    (Found /\ Len(problem.filePaths) > 0
           /\ \A i \in 1..Len(problem.filePaths) :
                 Loadable(Resolved(problem.filePaths[i])))
        => /\ stage = 1
           /\ PathsOf(files) = Slice(ResolvedAll(problem.filePaths), 5)
           /\ \A k \in 1..Len(files) : files[k].content = ContentOf(files[k].path)

\* more than 5 readable paths, one of the first 5 relative to the base path
C6_Witness ==
    /\ Found /\ Len(problem.filePaths) > 5
    /\ \A i \in 1..Len(problem.filePaths) : Loadable(Resolved(problem.filePaths[i]))
    /\ \E i \in 1..5 : ~problem.filePaths[i].abs
    /\ Len(files) = 5

\* ------------------------------------------------------------------------
\* C7: in the explicit-path option the existence filter comes before the
\* cap: of more than 5 supplied paths the first 5 existing ones are
\* returned. (Stated on disks where every existing file can be read.)
\* ------------------------------------------------------------------------
C7_FilterBeforeCap ==
    (Found /\ Len(problem.filePaths) > 5 /\ disk.unreadable = {})
        => PathsOf(files) = Slice(SelectSeq(ResolvedAll(problem.filePaths), OnDisk), 5)

\* ------------------------------------------------------------------------
\* C8: when explicit paths are supplied and none exists, the result does
\* not come from the explicit-path option: the cascade goes on to the
\* stack trace and the scan.
\* ------------------------------------------------------------------------
C8_NoExistingPathFallsThrough ==
    (Found /\ Len(problem.filePaths) > 0
           /\ \A i \in 1..Len(problem.filePaths) :
                 ~OnDisk(Resolved(problem.filePaths[i])))
        => stage \in {2, 3, 4}

\* ------------------------------------------------------------------------
\* C9: the keyword option scores every scanned file 1 per keyword (a word
\* of the lower-cased description longer than 3 characters) occurring in
\* its lower-cased content plus 2 per keyword occurring in its lower-cased
\* filename, and returns the files scoring above 0 in descending score
\* order, limited to the top 5.
\* ------------------------------------------------------------------------
C9_KeywordScoring ==
    /\ (Found /\ scanned) =>
          LET t == ClaimedScores
          IN (stage = 3) <=> (\E i \in 1..Len(t) : t[i].score > 0)
    /\ (stage = 3) =>
          LET t == ClaimedScores
              res == PathsOf(files)
              positive == {i \in 1..Len(t) : t[i].score > 0}
              at(k) == IndexIn(t, res[k])
          IN /\ \A k \in 1..Len(res) : at(k) \in positive
             /\ \A k, l \in 1..Len(res) : k # l => res[k] # res[l]
             /\ \A k \in 1..(Len(res) - 1) : t[at(k)].score >= t[at(k + 1)].score
             /\ Len(res) = Min(5, Cardinality(positive))
             /\ \A i \in positive :
                   t[i].path \notin Range(res)
                       => \A k \in 1..Len(res) : t[at(k)].score >= t[i].score
             /\ \A k \in 1..Len(res) : files[k] = toFileContent(TheScan[at(k)])

\* a file matched by name only is ranked above a file, earlier in the
\* scan, matched once by content, and some scanned file matches nothing
C9_Witness ==
    /\ stage = 3
    /\ LET t == ClaimedScores
           res == PathsOf(files)
       IN /\ \E i \in 1..Len(t) : t[i].score = 0
          /\ \E k, l \in 1..Len(res) :
                /\ k < l
                /\ IndexIn(t, res[k]) > IndexIn(t, res[l])
                /\ t[IndexIn(t, res[k])].score = 2
                /\ t[IndexIn(t, res[l])].score = 1

\* ------------------------------------------------------------------------
\* C10: in the keyword option two files with the same score keep the
\* relative order of the scan, also where the cut to 5 divides a group of
\* equal scores: the files kept come before the files dropped.
\* ------------------------------------------------------------------------
C10_TiesKeepScanOrder ==
    (stage = 3) =>
        LET t == ClaimedScores
            res == PathsOf(files)
            at(k) == IndexIn(t, res[k])
        IN /\ \A k, l \in 1..Len(res) :
                (k < l /\ t[at(k)].score = t[at(l)].score) => at(k) < at(l)
           /\ \A i \in 1..Len(t), k \in 1..Len(res) :
                (t[i].path \notin Range(res) /\ t[i].score = t[at(k)].score)
                    => at(k) < i

\* the cut to 5 drops a file whose score equals that of the last file kept
C10_Witness ==
    /\ stage = 3 /\ Len(files) = 5
    /\ LET t == ClaimedScores
           res == PathsOf(files)
       IN \E i \in 1..Len(t) :
            /\ t[i].path \notin Range(res)
            /\ t[i].score > 0
            /\ t[i].score = t[IndexIn(t, res[5])].score
            /\ t[i].score = t[IndexIn(t, res[4])].score

\* ------------------------------------------------------------------------
\* C11: when the project was scanned and no scanned file scores above 0
\* (also when the description has no word longer than 3 characters),
\* findRelatedFiles returns the first min(3, number of scanned files) files
\* of the scan, in scan order, whatever they contain.
\* ------------------------------------------------------------------------
C11_FallbackFirstThree ==
    (Found /\ scanned)
        => LET t == ClaimedScores
               scan == <<>> \o TheScan
           IN (\A i \in 1..Len(t) : t[i].score = 0)
                 => /\ stage = 4
                    /\ Len(files) = Min(3, Len(scan))
                    /\ \A k \in 1..Len(files) : files[k] = toFileContent(scan[k])

\* more than 3 files were scanned, none matched, and 3 were returned
C11_Witness ==
    /\ Found /\ stage = 4
    /\ Len(TheScan) > 3
    /\ Len(files) = 3

\* ------------------------------------------------------------------------
\* Vocabulary of the scanner properties
\* ------------------------------------------------------------------------
Finished(id) == scans[id].pc = "done"

\* p lies in the tree of directory root
Beneath(root, p) ==
    Len(root) <= Len(p.dir) /\ SubSeq(p.dir, 1, Len(root)) = root

\* the names of the directories between root and p, root excluded
DirNamesBelow(root, p) == {p.dir[k] : k \in (Len(root) + 1)..Len(p.dir)}

\* the directories walked on the way to p, root included
DirsOnTheWay(root, p) == {SubSeq(p.dir, 1, k) : k \in Len(root)..Len(p.dir)}

\* the tree of root holds a directory of an ignored name
HasIgnoredDir(root) ==
    \E dir \in Directories :
        /\ Len(dir) > Len(root) /\ SubSeq(dir, 1, Len(root)) = root
        /\ dir[Len(dir)] \in IGNORED_DIRS

\* the files of the tree of root that are on the disk
TreeFiles(root) == {p \in AllFiles : Beneath(root, p) /\ existsSync(disk, p)}

OutPaths(id) == {scans[id].out[k].path : k \in 1..Len(scans[id].out)}

OneRecordPerPath(id) ==
    \A k, l \in 1..Len(scans[id].out) :
        scans[id].out[k].path = scans[id].out[l].path => k = l

EverythingReadable == disk.unreadable = {} /\ disk.lockedDirs = {}

\* ------------------------------------------------------------------------
\* C12: for every readable directory tree without ignored directories,
\* holding N files whose extension is in the allow-list and M files with
\* other extensions, scanRepository returns exactly N records, one per
\* allow-listed file, and none refers to any of the M files.
\* ------------------------------------------------------------------------
\* as stated: the extension compared as it is spelled in the file name
C12_ExactlyAllowListed ==
    \A id \in Invocations :
        (Finished(id) /\ EverythingReadable /\ ~HasIgnoredDir(scans[id].root))
            => LET listed == {p \in TreeFiles(scans[id].root) :
                                 extname(p) \in SUPPORTED_EXTENSIONS}
               IN /\ OutPaths(id) = listed
                  /\ Len(scans[id].out) = Cardinality(listed)

\* amended: the extension is lower-cased before it is looked up, so a file
\* named b.JS is one of the N files
C12_ExactlyAllowListedLowerCased ==
    \A id \in Invocations :
        (Finished(id) /\ EverythingReadable /\ ~HasIgnoredDir(scans[id].root))
            => LET listed == {p \in TreeFiles(scans[id].root) :
                                 toLowerCase(extname(p)) \in SUPPORTED_EXTENSIONS}
               IN /\ OutPaths(id) = listed
                  /\ Len(scans[id].out) = Cardinality(listed)
                  /\ \A k \in 1..Len(scans[id].out) :
                        LET r == scans[id].out[k]
                        IN /\ r.file = r.path.file
                           /\ r.content = ContentOf(r.path)
                           /\ r.extension = toLowerCase(extname(r.path))

\* a scan of /repo/dists returned b.JS and k.json of the nested directory
\* and left c.md out
C12_Witness ==
    \E id \in Invocations :
        /\ Finished(id) /\ EverythingReadable
        /\ scans[id].root = DistsDir
        /\ {r_b, r_k} \subseteq OutPaths(id)
        /\ existsSync(disk, r_c) /\ r_c \notin OutPaths(id)

\* ------------------------------------------------------------------------
\* C13: for every directory below the scanned root whose name is exactly
\* one of the ignored names, no file beneath it, at any depth, is in the
\* result of scanRepository, at any moment of the walk.
\* ------------------------------------------------------------------------
C13_NothingBeneathIgnored ==
    \A id \in Invocations :
        \A p \in OutPaths(id) :
            DirNamesBelow(scans[id].root, p) \cap IGNORED_DIRS = {}

\* a finished scan of /repo went into lib, whose node_modules holds z.ts,
\* and into dists, whose name only starts like an ignored one
C13_Witness ==
    \E id \in Invocations :
        /\ Finished(id) /\ scans[id].root = RepoDir
        /\ r_m \in OutPaths(id)
        /\ r_b \in OutPaths(id)
        /\ Readable(disk, r_z) /\ Readable(disk, r_y)

\* ------------------------------------------------------------------------
\* C14: an unreadable entry never makes scanRepository fail: a file that
\* cannot be read is the only file its failure omits, a directory that
\* cannot be listed omits its subtree only, and every other readable
\* allow-listed file outside ignored directories is in the result, the
\* entries after the failing one included.
\* ------------------------------------------------------------------------
C14_FailuresOmitOnlyThemselves ==
    \A id \in Invocations :
        LET root == scans[id].root
            expected == {p \in TreeFiles(root) :
                            /\ toLowerCase(extname(p)) \in SUPPORTED_EXTENSIONS
                            /\ Readable(disk, p)
                            /\ DirNamesBelow(root, p) \cap IGNORED_DIRS = {}
                            /\ DirsOnTheWay(root, p) \cap disk.lockedDirs = {}}
        IN /\ scans[id].pc \in {"idle", "walking", "done"}
           /\ scans[id].pc = "walking" => OutPaths(id) \subseteq expected
           /\ Finished(id) => OutPaths(id) = expected /\ OneRecordPerPath(id)

\* /repo/priv could not be listed and k.json could not be read: the scan
\* ended with g.glsl, listed after priv, and h.wgsl, a sibling of more
C14_Witness ==
    \E id \in Invocations :
        /\ Finished(id) /\ scans[id].root = RepoDir
        /\ disk.lockedDirs = {PrivDir}
        /\ disk.unreadable = {r_k}
        /\ {r_a, r_h, r_b, r_m, r_g} \subseteq OutPaths(id)

\* ------------------------------------------------------------------------
\* C15: the result of scanRepository depends only on the root path and the
\* filesystem: however the steps of two invocations interleave, each
\* collects, record by record, what a scan running alone collects, and
\* returns the same records as the other when given the same directory.
\* ------------------------------------------------------------------------
C15_ScansDoNotInterfere ==
    /\ \A id \in Invocations :
          LET alone == scanRepository(disk, scans[id].root)
              out == scans[id].out
          IN /\ scans[id].pc = "walking"
                  => Len(out) <= Len(alone) /\ out = SubSeq(alone, 1, Len(out))
             /\ Finished(id) => out = alone
    /\ (Finished(1) /\ Finished(2) /\ scans[1].root = scans[2].root)
          => {<<r.path, r.content>> : r \in Range(scans[1].out)}
               = {<<r.path, r.content>> : r \in Range(scans[2].out)}

\* two scans of /repo under way at once, one further along than the other
C15_Witness ==
    /\ scans[1].pc = "walking" /\ scans[2].pc = "walking"
    /\ scans[1].root = RepoDir /\ scans[2].root = RepoDir
    /\ Len(scans[1].out) > 0
    /\ Len(scans[2].out) > Len(scans[1].out)
    /\ Len(scans[1].stack) > 0 /\ Len(scans[2].stack) > 0

\* ------------------------------------------------------------------------
\* Vocabulary of the dependency properties
\* ------------------------------------------------------------------------
Analysed == dep.analysed # 0
Mapped == dep.pc \in {"mapped", "queried"}

BatchNames == {dep.batch[i].file : i \in 1..Len(dep.batch)}

\* the lines of the analysed file, trimmed
AnalysedLines ==
    LET lines == splitLines(dep.batch[dep.analysed].content)
    IN <<>> \o [k \in 1..Len(lines) |-> trim(lines[k])]

\* what a trimmed line contributes when the lines starting with one of the
\* markers are skipped: nothing, or its raw text and module path
LineRecords(t, markers) ==
    LET byImport == matchImport(t)
        byRequire == matchRequire(t)
    IN IF \E m \in markers : startsWith(t, m) THEN <<>>
       ELSE IF byImport # <<>> THEN <<[raw |-> t, module |-> byImport]>>
       ELSE IF byRequire # <<>> THEN <<[raw |-> t, module |-> byRequire]>>
       ELSE <<>>

RawAndModule(imports) ==
    <<>> \o [k \in 1..Len(imports) |->
               [raw |-> imports[k].raw, module |-> imports[k].module]]

\* a module path is relative when it begins with ./ or ../
ClaimedRelative(m) ==
    \/ (Len(m) >= 2 /\ m[1] = "." /\ m[2] = "/")
    \/ (Len(m) >= 3 /\ m[1] = "." /\ m[2] = "." /\ m[3] = "/")

\* the names an import may resolve to, in the order they are tried
ClaimedCandidates(m) ==
    LET base == basenameOf(m)
        exts == << <<".", "t", "s">>, <<".", "j", "s">>, <<".", "t", "s", "x">>,
                   <<".", "j", "s", "x">>, <<".", "w", "g", "s", "l">> >>
    IN <<base>> \o [i \in 1..5 |-> base \o exts[i]]
              \o [i \in 1..5 |-> <<"i", "n", "d", "e", "x">> \o exts[i]]

\* the first candidate that is a file name of the batch, as a sequence of
\* no or one name
ClaimedHit(m) ==
    LET c == ClaimedCandidates(m)
        hits == {i \in 1..Len(c) : c[i] \in BatchNames}
    IN IF hits = {} THEN <<>>
       ELSE <<c[CHOOSE i \in hits : \A j \in hits : i <= j]>>

C17_FirstHitInFixedOrder ==
    Analysed =>
        LET imports == dep.detail.imports
            relative(imp) == ClaimedRelative(imp.module)
            rel == SelectSeq(imports, relative)
        IN dep.detail.dependsOn
              = concatAll([k \in 1..Len(rel) |-> ClaimedHit(rel[k].module)])

\* './shared' was resolved to shared.ts with shared.js in the batch too,
\* and a second relative import of the file found nothing
C17_Witness ==
    /\ Analysed
    /\ {n_shared_ts, n_shared_js} \subseteq BatchNames
    /\ dep.detail.dependsOn = <<n_shared_ts>>
    /\ Cardinality({k \in 1..Len(dep.detail.imports) :
                       dep.detail.imports[k].isRelative}) = 2

\* ------------------------------------------------------------------------
\* C18: every name in every dependency list of buildDependencyMap and in
\* dependsOn of analyzeFileDependencies is the file name of a file of the
\* same batch; no list holds a null.
\* ------------------------------------------------------------------------
C18_EdgesStayInBatch ==
    /\ Mapped =>
          \A i \in 1..Len(dep.map) :
              /\ dep.map[i].file \in BatchNames
              /\ \A k \in 1..Len(dep.map[i].deps) :
                    dep.map[i].deps[k] \in BatchNames /\ dep.map[i].deps[k] # Null
    /\ Analysed =>
          \A k \in 1..Len(dep.detail.dependsOn) :
              dep.detail.dependsOn[k] \in BatchNames /\ dep.detail.dependsOn[k] # Null

\* a map with an edge, built from a batch one of whose relative imports
\* names no file of the batch
C18_Witness ==
    /\ Mapped
    /\ \E i \in 1..Len(dep.map) : Len(dep.map[i].deps) > 0
    /\ Analysed
    /\ \E k \in 1..Len(dep.detail.imports) :
          /\ ClaimedRelative(dep.detail.imports[k].module)
          /\ ClaimedHit(dep.detail.imports[k].module) = <<>>

\* ------------------------------------------------------------------------
\* C19: an import adds to a dependency list only if its module path begins
\* with ./ or ../; any other import is a package reference and adds
\* nothing, also when a file of the batch carries the name of the package.
\* ------------------------------------------------------------------------
C19_PackagesNeverResolved ==
    /\ Analysed =>
          LET imports == dep.detail.imports
              relative(imp) == ClaimedRelative(imp.module)
          IN /\ \A k \in 1..Len(imports) :
                   /\ imports[k].isRelative = ClaimedRelative(imports[k].module)
                   /\ imports[k].isPackage = ~ClaimedRelative(imports[k].module)
             /\ Len(dep.detail.dependsOn) <= Len(SelectSeq(imports, relative))
             /\ \A name \in Range(dep.detail.dependsOn) :
                   \E k \in 1..Len(imports) :
                       /\ ClaimedRelative(imports[k].module)
                       /\ ClaimedHit(imports[k].module) = <<name>>
    /\ (Mapped /\ Analysed
           /\ \A j \in (dep.analysed + 1)..Len(dep.batch) :
                 dep.batch[j].file # dep.detail.file) =>
          \A i \in 1..Len(dep.map) :
              dep.map[i].file = dep.detail.file
                 => \A name \in Range(dep.map[i].deps) :
                       \E k \in 1..Len(dep.detail.imports) :
                           /\ ClaimedRelative(dep.detail.imports[k].module)
                           /\ ClaimedHit(dep.detail.imports[k].module) = <<name>>

\* the analysed file imports the package lodash, lodash.ts is in the batch
\* and is not among its dependencies
C19_Witness ==
    /\ Analysed
    /\ n_lodash \in BatchNames
    /\ \E k \in 1..Len(dep.detail.imports) :
          /\ dep.detail.imports[k].module = <<"l", "o", "d", "a", "s", "h">>
          /\ dep.detail.imports[k].isPackage
    /\ Len(dep.detail.dependsOn) > 0
    /\ n_lodash \notin Range(dep.detail.dependsOn)

\* ------------------------------------------------------------------------
\* C20: findDependents is the exact inverse of the dependency map: f is in
\* findDependents(t, map) if and only if t is in map[f]; in particular,
\* when a file of the batch relatively imports './shared' and shared.ts is
\* in the batch, the list of that file includes shared.ts and
\* findDependents('shared.ts') includes that file.
\* ------------------------------------------------------------------------
C20_DependentsInvertTheMap ==
    /\ dep.pc = "queried" =>
          \A f \in BatchNames :
              (f \in Range(dep.dependents))
                 <=> (\E i \in 1..Len(dep.map) :
                         dep.map[i].file = f /\ dep.target \in Range(dep.map[i].deps))
    /\ (Mapped /\ n_shared_ts \in BatchNames) =>
          \A j \in 1..Len(dep.batch) :
              LET imports == parseImports(dep.batch[j].content)
              IN (\E k \in 1..Len(imports) :
                     imports[k].module = <<".", "/", "s", "h", "a", "r", "e", "d">>)
                    => /\ \E i \in 1..Len(dep.map) :
                             /\ dep.map[i].file = dep.batch[j].file
                             /\ n_shared_ts \in Range(dep.map[i].deps)
                       /\ (dep.pc = "queried" /\ dep.target = n_shared_ts)
                             => dep.batch[j].file \in Range(dep.dependents)

\* ------------------------------------------------------------------------
\* C21: each file's dependency collection in the map built by
\* buildDependencyMap is a set: a resolved file name occurs in it at most
\* once, however many import lines of the file resolve to that name.
\* ------------------------------------------------------------------------
C21_DependenciesAreSets ==
    Mapped =>
        \A i \in 1..Len(dep.map) :
            \A k, l \in 1..Len(dep.map[i].deps) :
                dep.map[i].deps[k] = dep.map[i].deps[l] => k = l

\* ------------------------------------------------------------------------
\* C22: buildDependencyMap returns one entry per scanned file, and the
\* entry of each file lists the resolved targets of that file's own
\* relative imports, also when two files of the batch, in different
\* directories, have the same file name.
\* ------------------------------------------------------------------------
C22_OneEntryPerScannedFile ==
    Mapped =>
        /\ Len(dep.map) = Len(dep.batch)
        /\ \A j \in 1..Len(dep.batch) :
              \E i \in 1..Len(dep.map) :
                  /\ dep.map[i].file = dep.batch[j].file
                  /\ Range(dep.map[i].deps)
                        = Range(dependenciesOf(parseImports(dep.batch[j].content),
                                               BatchNames))

\* ------------------------------------------------------------------------
\* C23: in runAgentLoop the steps happen in the order health check, read
\* problem, find related files, analyze, suggest fix, and a step starts
\* only after every earlier step succeeded: if the health check fails or no
\* file is found, the problem is not analyzed and no model query is issued.
\* ------------------------------------------------------------------------
C23_StepsInOrder ==
    entry = "runAgentLoop" =>
        LET analyzed == <<analyzeBugLogicPrompt(files)>>
            suggested == Append(analyzed, suggestFixPrompt(files))
        IN /\ pc \in {"read", "find", "analyze", "suggest", "done"}
           /\ pc = "read" => problem = NoProblem /\ ~Found /\ prompts = <<>>
           /\ pc = "find" => problem # NoProblem /\ ~Found /\ prompts = <<>>
           /\ pc = "analyze" =>
                 problem # NoProblem /\ Found /\ Len(files) > 0 /\ prompts = <<>>
           /\ pc = "suggest" =>
                 problem # NoProblem /\ Found /\ Len(files) > 0 /\ prompts = analyzed
           /\ pc = "done" =>
                 /\ prompts \in {<<>>, analyzed, suggested}
                 /\ Found => problem # NoProblem
                 /\ Len(prompts) > 0 => Found /\ Len(files) > 0
                 /\ outcome = "ok" => prompts = suggested
                 /\ (problem = NoProblem \/ Len(files) = 0)
                       => prompts = <<>> /\ outcome = "error"
           /\ pc # "done" => outcome = "none"

\* the cascade of a healthy run found no file: the run ended with an
\* error before any query
C23_Witness ==
    /\ entry = "runAgentLoop"
    /\ pc = "done"
    /\ Found
    /\ Len(files) = 0
    /\ prompts = <<>>
    /\ outcome = "error"

\* ------------------------------------------------------------------------
\* Vocabulary of the properties of agent/analyzer.ts
\* ------------------------------------------------------------------------
AnalyzerReturned == analyzer.pc \in {"returned", "printed"}

\* the text is the JSON text of an object
ParsesAsObject(text) ==
    LET p == JSONparse(text)
    IN p.ok /\ p.v.t = "object"

\* the four fields the analysis of an unstructured response carries
UnstructuredFields ==
    /\ analyzer.analysis.bugExplanation = Str(analyzer.reply.text)
    /\ analyzer.analysis.severity = Str(Str_medium)
    /\ analyzer.analysis.affectedCode
          = Arr([i \in 1..Len(analyzer.files) |->
                    Str(PathText(analyzer.files[i].path))])
    /\ analyzer.analysis.summary = Str(analyzer.description)

\* analyzeBugLogic throws exactly when the query failed
ThrowsOnlyOnFailedQuery ==
    analyzer.pc # "idle" => (analyzer.pc = "thrown" <=> ~analyzer.reply.ok)

\* ------------------------------------------------------------------------
\* C24: whenever the model query succeeds, analyzeBugLogic returns a
\* BugAnalysis and never throws, whatever text the model returned: a
\* response that is not parseable as a JSON object yields bugExplanation =
\* the raw response, severity 'medium', affectedCode = the paths of all
\* given files and summary = the problem description; analyzeBugLogic
\* throws only when the model query itself fails.
\* ------------------------------------------------------------------------
\* as stated: the response as the model returned it
C24_UnparseableGivesRaw ==
    /\ ThrowsOnlyOnFailedQuery
    /\ (AnalyzerReturned /\ ~ParsesAsObject(analyzer.reply.text))
          => UnstructuredFields

\* amended: the response after it is trimmed and its fence of three
\* backquotes, if it starts with one, is removed
C24_UnparseableAfterCleanUpGivesRaw ==
    /\ ThrowsOnlyOnFailedQuery
    /\ (AnalyzerReturned /\ ~ParsesAsObject(cleanResponse(analyzer.reply.text)))
          => UnstructuredFields

\* a response that starts with a fence and holds no JSON object after the
\* clean-up came back as the explanation, with two files given
C24_Witness ==
    /\ AnalyzerReturned
    /\ analyzer.reply.ok
    /\ startsWith(analyzer.reply.text, Str_fence)
    /\ ~ParsesAsObject(cleanResponse(analyzer.reply.text))
    /\ analyzer.analysis.bugExplanation = Str(analyzer.reply.text)
    /\ Len(analyzer.analysis.affectedCode.items) = 2

\* ------------------------------------------------------------------------
\* C25: every BugAnalysis returned by analyzeBugLogic has a severity that
\* is one of 'low', 'medium', 'high', 'critical', for every text the model
\* can return, so that printBugAnalysis in runAgentLoop and
\* runAgentWithInput never fails on it.
\* ------------------------------------------------------------------------
C25_SeverityIsOneOfFour ==
    /\ AnalyzerReturned =>
          /\ analyzer.analysis.severity.t = "string"
          /\ analyzer.analysis.severity.s
                \in {Str_low, Str_medium, Str_high, Str_critical}
    /\ analyzer.pc = "printed" => analyzer.print = "printed"

\* ------------------------------------------------------------------------
\* C26: every route of the web server under /api sends exactly one JSON
\* response per request, for every request body: when the operation behind
\* the route throws (model unavailable, missing or malformed field, file
\* not readable or writable), the response is {success: false, error}, and
\* the server keeps serving later requests.
\* ------------------------------------------------------------------------
C26_OneJsonResponsePerRequest ==
    /\ web.pc = "responded" =>
          /\ Len(web.responses) = 1
          /\ web.responses[1].type = "json"
          /\ web.operation = "threw" => web.responses[1].success = "false"
          /\ web.responses[1].success = "true" => web.operation # "threw"
    /\ web.pc # "idle" => web.listening

\* ------------------------------------------------------------------------
\* C27: in the browser editor, the modified content returned for an AI edit
\* request is stored into, and auto-saved to the path of, the file that was
\* the current file when sendPrompt was called, under every interleaving of
\* the pending request with switchToFile, openFile and closeTab; content
\* generated from one file is never written to another file.
\* ------------------------------------------------------------------------
C27_EditStaysWithItsFile ==
    /\ \A i \in 1..Len(ide.openFiles) :
          ide.openFiles[i].content.of = ide.openFiles[i].path
    /\ \A i \in 1..Len(ide.requests) :
          ide.requests[i].route = "/api/file/write"
             => ide.requests[i].content.of = ide.requests[i].path
    /\ \A p \in EditorPaths : ide.saved[p].of = p

\* ------------------------------------------------------------------------
\* C28: in the browser editor, after any sequence of loadProject, openFile,
\* switchToFile and closeTab, currentFile is either null or a file whose
\* path is a key of openFiles.
\* ------------------------------------------------------------------------
C28_CurrentFileIsOpen ==
    ide.currentFile = NoFile \/ isOpen(ide.openFiles, ide.currentFile)

\* ------------------------------------------------------------------------
\* C29: in the desktop shell, the main window is created and pointed at
\* http://localhost:3000/ide.html only after the spawned server process
\* has announced on its output that it is listening on localhost:3000.
\* ------------------------------------------------------------------------
C29_WindowOnlyAfterAnnouncement ==
    shell.loaded # "none" =>
        \E k \in 1..shell.printed : includes(ServerOutput[k], Str_localhost3000)

\* ------------------------------------------------------------------------
\* C30: in the desktop shell, on every platform and after any sequence of
\* window-all-closed, activate and before-quit events, whenever a main
\* window exists the server process started by startServer has not been
\* killed by the shell; and once the application has quit the server
\* process has been killed.
\* ------------------------------------------------------------------------
C30_WindowImpliesServerNotKilled ==
    /\ shell.windows > 0 => shell.serverProcess # "killed"
    /\ (shell.app = "quit" /\ shell.serverProcess # "unset")
          => shell.serverProcess = "killed"

====
